---- MODULE Spec2Model ----
(***************************************************************************)
(* Connect Four engine (rust_ai_core): board model, win detection,         *)
(* evaluation function and the depth-limited minimax search of struct AI.  *)
(* Rows are indexed as in the source: row 0 is the top of a column and     *)
(* row ROWS-1 is the bottom; board[col][row].                              *)
(***************************************************************************)
EXTENDS Integers, Sequences, FiniteSets, TLC

ROWS == 6
COLS == 7

\* ---- bounds of the model ------------------------------------------------
\* successful make_move calls played after the initial position
MaxMoves == 4
\* successful make_move calls played after the initial position where
\* evaluate is called
MaxEvalMoves == 2
\* successful make_move calls played after the initial position where
\* get_best_move is called, and the search depths tried (1..MaxDepth)
MaxAIMoves == 2
MaxDepth == 1
\* the most empty cells of a position on which a search with the wrapped
\* depth 255 is run
MaxFullSearchCells == 3
\* successful make_move calls played after an end game position, and the
\* search depths tried there (0..MaxEndDepth)
MaxEndMoves == 1
MaxEndDepth == 4

\* ---- Player, Cell, Option, Result ---------------------------------------
Player1 == "Player1"
Player2 == "Player2"
Players == {Player1, Player2}
Empty == "Empty"

None == [some |-> FALSE]
Some(v) == [some |-> TRUE, value |-> v]

Ok == [ok |-> TRUE]
Err(msg) == [ok |-> FALSE, err |-> msg]

opponent(player) == IF player = Player1 THEN Player2 ELSE Player1

from_player(player) == IF player = Player1 THEN "Player1" ELSE "Player2"

to_player(cell) ==
    IF cell = Empty THEN None
    ELSE IF cell = "Player1" THEN Some(Player1) ELSE Some(Player2)

\* ---- GeneticParams ------------------------------------------------------
\* The f64 weights are kept in thousandths (1798 stands for 1.798); the i32
\* fields are kept as they are.
DefaultParams ==
    [win_score |-> 10000, loss_score |-> -10000,
     center_column_value |-> 165, adjacent_center_value |-> 97,
     outer_column_value |-> 17, edge_column_value |-> 6,
     row_height_weight |-> 1798,
     center_control_weight |-> 2022, piece_count_weight |-> 965,
     threat_weight |-> 1588, mobility_weight |-> 1453,
     vertical_control_weight |-> 2862, horizontal_control_weight |-> 1344,
     defensive_weight |-> 1372]

\* parameters in the ranges GeneticParams::random draws from, with terminal
\* scores different from the defaults
AltParams ==
    [win_score |-> 12000, loss_score |-> -8000,
     center_column_value |-> 120, adjacent_center_value |-> 60,
     outer_column_value |-> 20, edge_column_value |-> 4,
     row_height_weight |-> 1500,
     center_control_weight |-> 1000, piece_count_weight |-> 1500,
     threat_weight |-> 3250, mobility_weight |-> 500,
     vertical_control_weight |-> 2000, horizontal_control_weight |-> 2500,
     defensive_weight |-> 750]

\* parameters at the upper ends of the ranges GeneticParams::random draws from
HighParams ==
    [win_score |-> 14999, loss_score |-> -14999,
     center_column_value |-> 199, adjacent_center_value |-> 99,
     outer_column_value |-> 24, edge_column_value |-> 9,
     row_height_weight |-> 1999,
     center_control_weight |-> 2999, piece_count_weight |-> 1999,
     threat_weight |-> 4999, mobility_weight |-> 1999,
     vertical_control_weight |-> 2999, horizontal_control_weight |-> 2999,
     defensive_weight |-> 2999]

\* `w as i32` for an f64 weight w given in thousandths: truncation toward 0
AsI32(milli) ==
    IF milli >= 0 THEN milli \div 1000 ELSE -((-milli) \div 1000)

\* ---- GameState ----------------------------------------------------------
EmptyBoard == [col \in 0..(COLS - 1) |-> [row \in 0..(ROWS - 1) |-> Empty]]

NewGameState(first_player, params) ==
    [board |-> EmptyBoard, current_player |-> first_player,
     genetic_params |-> params]

\* can_place_in_column looking at the bottom cell instead of the top cell
can_place_in_column_bottom(s, col) ==
    col < COLS /\ s.board[col][ROWS - 1] = Empty

can_place_in_column(s, col) == col < COLS /\ s.board[col][0] = Empty

RECURSIVE valid_moves_from(_, _)
valid_moves_from(s, col) ==
    IF col >= COLS THEN <<>>
    ELSE (IF can_place_in_column(s, col) THEN <<col>> ELSE <<>>)
             \o valid_moves_from(s, col + 1)

get_valid_moves(s) == valid_moves_from(s, 0)

\* get_lowest_empty_row scanning from the top row down (returns the highest
\* empty row)
RECURSIVE highest_empty_from(_, _, _)
highest_empty_from(b, col, row) ==
    IF row >= ROWS THEN ROWS
    ELSE IF b[col][row] = Empty THEN row
    ELSE highest_empty_from(b, col, row + 1)

get_lowest_empty_row_from_top(s, col) == highest_empty_from(s.board, col, 0)

RECURSIVE lowest_empty_from(_, _, _)
lowest_empty_from(b, col, row) ==
    IF row < 0 THEN ROWS
    ELSE IF b[col][row] = Empty THEN row
    ELSE lowest_empty_from(b, col, row - 1)

\* get_lowest_empty_row starting its scan one row above the bottom
get_lowest_empty_row_skip_bottom(s, col) ==
    lowest_empty_from(s.board, col, ROWS - 2)

get_lowest_empty_row(s, col) == lowest_empty_from(s.board, col, ROWS - 1)

\* make_move without the full-column checks: a full column has its top cell
\* overwritten
make_move_unchecked(s, col) ==
    IF col >= COLS THEN [state |-> s, result |-> Err("Invalid column")]
    ELSE LET row == get_lowest_empty_row(s, col) IN
         [state |-> [s EXCEPT
              !.board[col][IF row >= ROWS THEN 0 ELSE row] =
                  from_player(s.current_player),
              !.current_player = opponent(s.current_player)],
          result |-> Ok]

\* make_move that places the piece and leaves the turn where it was
make_move_no_switch(s, col) ==
    IF col >= COLS THEN [state |-> s, result |-> Err("Invalid column")]
    ELSE IF s.board[col][0] # Empty
    THEN [state |-> s, result |-> Err("Column is full")]
    ELSE [state |-> [s EXCEPT
              !.board[col][get_lowest_empty_row(s, col)] =
                  from_player(s.current_player)],
          result |-> Ok]

\* make_move that passes the turn when the column is full
make_move_full_column_passes(s, col) ==
    IF col >= COLS THEN [state |-> s, result |-> Err("Invalid column")]
    ELSE IF s.board[col][0] # Empty
    THEN [state |-> [s EXCEPT !.current_player = opponent(s.current_player)],
          result |-> Err("Column is full")]
    ELSE [state |-> [s EXCEPT
              !.board[col][get_lowest_empty_row(s, col)] =
                  from_player(s.current_player),
              !.current_player = opponent(s.current_player)],
          result |-> Ok]

\* make_move without the range check on col: can_place_in_column rejects the
\* column and the call reports a full column
make_move_no_range_check(s, col) ==
    IF ~(col < COLS /\ s.board[col][0] = Empty)
    THEN [state |-> s, result |-> Err("Column is full")]
    ELSE [state |-> [s EXCEPT
              !.board[col][get_lowest_empty_row(s, col)] =
                  from_player(s.current_player),
              !.current_player = opponent(s.current_player)],
          result |-> Ok]

\* make_move without the can_place_in_column check: the column is full only
\* when get_lowest_empty_row finds no empty cell
make_move_any_empty_row(s, col) ==
    IF col >= COLS THEN [state |-> s, result |-> Err("Invalid column")]
    ELSE LET row == get_lowest_empty_row(s, col) IN
         IF row >= ROWS THEN [state |-> s, result |-> Err("Column is full")]
         ELSE [state |-> [s EXCEPT
                   !.board[col][row] = from_player(s.current_player),
                   !.current_player = opponent(s.current_player)],
               result |-> Ok]

\* make_move returns the Result and the state it leaves behind
make_move(s, col) ==
    IF col >= COLS THEN [state |-> s, result |-> Err("Invalid column")]
    ELSE IF ~can_place_in_column(s, col)
    THEN [state |-> s, result |-> Err("Column is full")]
    ELSE LET row == get_lowest_empty_row(s, col) IN
         IF row >= ROWS THEN [state |-> s, result |-> Err("Column is full")]
         ELSE [state |-> [s EXCEPT
                   !.board[col][row] = from_player(s.current_player),
                   !.current_player = opponent(s.current_player)],
               result |-> Ok]

\* the cells of `cell` met walking from (c, r) in steps of (dcol, drow)
RECURSIVE run_length(_, _, _, _, _, _)
run_length(b, c, r, dcol, drow, cell) ==
    IF c >= 0 /\ c < COLS /\ r >= 0 /\ r < ROWS
    THEN IF b[c][r] = cell
         THEN 1 + run_length(b, c + dcol, r + drow, dcol, drow, cell)
         ELSE 0
    ELSE 0

count_in_direction(b, col, row, dcol, drow, player) ==
    1 + run_length(b, col + dcol, row + drow, dcol, drow, from_player(player))
      + run_length(b, col - dcol, row - drow, -dcol, -drow, from_player(player))

\* the direction table without its last entry
directions_without_last == << <<1, 0>>, <<0, 1>>, <<1, 1>> >>

directions == << <<1, 0>>, <<0, 1>>, <<1, 1>>, <<1, -1>> >>

check_win_at_test(b, col, row, player) ==
    \E i \in 1..Len(directions) :
        count_in_direction(b, col, row, directions[i][1], directions[i][2],
                           player) >= 4

check_win_at(s, col, row, player) ==
    check_win_at_test(s.board, col, row, player)

\* the cells at which the scan of get_winner would return, cell k standing
\* for col = k \div ROWS, row = k % ROWS
winning_cells(s) ==
    {k \in 0..(COLS * ROWS - 1) :
        LET cell == to_player(s.board[k \div ROWS][k % ROWS])
        IN cell.some /\ check_win_at(s, k \div ROWS, k % ROWS, cell.value)}

\* the scan of get_winner from cell k on: the player of the first cell at
\* which it returns
winner_from(s, k) ==
    LET found == {j \in winning_cells(s) : j >= k} IN
    IF found = {} THEN None
    ELSE LET first == CHOOSE j \in found : \A other \in found : j <= other
         IN Some(to_player(s.board[first \div ROWS][first % ROWS]).value)

get_winner(s) == winner_from(s, 0)

has_winner(s) == get_winner(s).some

is_draw(s) == Len(get_valid_moves(s)) = 0

\* a game is over only when it is won
is_game_over_when_won(s) == has_winner(s)

is_game_over(s) == has_winner(s) \/ is_draw(s)

is_empty_board(s) ==
    \A col \in 0..(COLS - 1) : \A row \in 0..(ROWS - 1) :
        s.board[col][row] = Empty

pieces_count(s, player) ==
    Cardinality({cr \in (0..(COLS - 1)) \X (0..(ROWS - 1)) :
                    s.board[cr[1]][cr[2]] = from_player(player)})

\* ---- evaluation function ------------------------------------------------
\* the sum of the numbers of a sequence, by halves
RECURSIVE SeqSum(_)
SeqSum(seq) ==
    IF Len(seq) = 0 THEN 0
    ELSE IF Len(seq) = 1 THEN seq[1]
    ELSE SeqSum(SubSeq(seq, 1, Len(seq) \div 2))
            + SeqSum(SubSeq(seq, Len(seq) \div 2 + 1, Len(seq)))

column_value(params, col) ==
    CASE col = 3 -> params.center_column_value
      [] col \in {2, 4} -> params.adjacent_center_value
      [] col \in {1, 5} -> params.outer_column_value
      [] OTHER -> params.edge_column_value

\* (column_value as f64 * (ROWS - row) as f64 * row_height_weight) as i32
position_term(params, col, row) ==
    AsI32(column_value(params, col) * (ROWS - row) * params.row_height_weight)

\* the position loop of evaluate_with_genetic_params, cell k = col * ROWS + row
position_sum(s) ==
    SeqSum([k \in 1..(COLS * ROWS) |->
        LET col == (k - 1) \div ROWS
            row == (k - 1) % ROWS
        IN CASE s.board[col][row] = "Player1" ->
                    position_term(s.genetic_params, col, row)
             [] s.board[col][row] = "Player2" ->
                    -position_term(s.genetic_params, col, row)
             [] OTHER -> 0])

center_control_score(s, player) ==
    SeqSum([k \in 1..(3 * ROWS) |->
        LET col == 2 + (k - 1) \div ROWS
            row == (k - 1) % ROWS
        IN IF s.board[col][row] = from_player(player) THEN ROWS - row ELSE 0])

\* one while loop of count_threats_at: the cells of `cell` met from (c, r) on,
\* and whether the walk ended on a piece of the other colour
RECURSIVE threat_walk(_, _, _, _, _, _)
threat_walk(b, c, r, dcol, drow, cell) ==
    IF c >= 0 /\ c < COLS /\ r >= 0 /\ r < ROWS
    THEN IF b[c][r] = cell
         THEN LET rest == threat_walk(b, c + dcol, r + drow, dcol, drow, cell)
              IN [consecutive |-> rest.consecutive + 1, blocked |-> rest.blocked]
         ELSE [consecutive |-> 0,
               blocked |-> IF b[c][r] # Empty THEN 1 ELSE 0]
    ELSE [consecutive |-> 0, blocked |-> 0]

threat_value(consecutive, blocked) ==
    CASE consecutive = 4 -> 1000
      [] consecutive = 3 -> (IF blocked = 0 THEN 100 ELSE 10)
      [] consecutive = 2 -> (IF blocked = 0 THEN 10 ELSE 1)
      [] consecutive = 1 -> (IF blocked = 0 THEN 1 ELSE 0)
      [] OTHER -> 0

count_threats_at(b, col, row, player) ==
    SeqSum([i \in 1..Len(directions) |->
        LET dcol == directions[i][1]
            drow == directions[i][2]
            pos == threat_walk(b, col, row, dcol, drow, from_player(player))
            neg == threat_walk(b, col - dcol, row - drow, -dcol, -drow,
                               from_player(player))
        IN threat_value(pos.consecutive + neg.consecutive,
                        pos.blocked + neg.blocked)])

threat_score(s, player) ==
    SeqSum([k \in 1..COLS |->
        LET col == k - 1 IN
        IF can_place_in_column(s, col)
        THEN LET row == get_lowest_empty_row(s, col) IN
             IF row < ROWS
             THEN LET test_board ==
                          [s.board EXCEPT ![col][row] = from_player(player)]
                  IN IF check_win_at_test(test_board, col, row, player)
                     THEN 10000
                     ELSE count_threats_at(test_board, col, row, player)
             ELSE 0
        ELSE 0])

\* mobility_score without the early return for the empty board
mobility_score_no_empty_check(s, player) ==
    SeqSum([k \in 1..COLS |->
        LET col == k - 1 IN
        IF can_place_in_column(s, col)
        THEN LET test == make_move(s, col) IN
             IF test.result.ok
             THEN threat_score(test.state, player) \div 10
             ELSE 0
        ELSE 0])

\* mobility_score whose test move is always a piece of Player1
mobility_score_player1_tests(s, player) ==
    LET mobility ==
            SeqSum([k \in 1..COLS |->
                LET col == k - 1 IN
                IF can_place_in_column(s, col)
                THEN LET test == make_move([s EXCEPT !.current_player = Player1],
                                           col) IN
                     IF test.result.ok
                     THEN threat_score(test.state, player) \div 10
                     ELSE 0
                ELSE 0])
    IN IF is_empty_board(s) THEN 0 ELSE mobility

mobility_score(s, player) ==
    LET mobility ==
            SeqSum([k \in 1..COLS |->
                LET col == k - 1 IN
                IF can_place_in_column(s, col)
                THEN LET test == make_move(s, col) IN
                     IF test.result.ok
                     THEN threat_score(test.state, player) \div 10
                     ELSE 0
                ELSE 0])
    IN IF is_empty_board(s) THEN 0 ELSE mobility

\* the running count of a control score along one line of cells: `run` is the
\* count of consecutive cells of the player ending at the previous cell
RECURSIVE control_line(_, _, _, _)
control_line(cells, i, run, cell) ==
    IF i > Len(cells) THEN 0
    ELSE LET consecutive == IF cells[i] = cell THEN run + 1 ELSE 0
         IN consecutive + control_line(cells, i + 1, consecutive, cell)

vertical_control_score(s, player) ==
    SeqSum([k \in 1..COLS |->
        control_line([j \in 1..ROWS |-> s.board[k - 1][j - 1]], 1, 0,
                     from_player(player))])

horizontal_control_score(s, player) ==
    SeqSum([k \in 1..ROWS |->
        control_line([j \in 1..COLS |-> s.board[j - 1][k - 1]], 1, 0,
                     from_player(player))])

defensive_score(s, player) ==
    SeqSum([k \in 1..COLS |->
        LET col == k - 1 IN
        IF can_place_in_column(s, col)
        THEN LET row == get_lowest_empty_row(s, col)
                 test_board == [s.board EXCEPT ![col][row] = from_player(player)]
             IN IF check_win_at_test(test_board, col, row, opponent(player))
                THEN 5000
                ELSE LET before == count_threats_at(s.board, col, row,
                                                    opponent(player))
                         after == count_threats_at(test_board, col, row,
                                                   opponent(player))
                     IN IF after < before THEN (before - after) * 100 ELSE 0
        ELSE 0])

evaluate_with_genetic_params(s) ==
    LET winner == get_winner(s)
        params == s.genetic_params
    IN IF winner.some
       THEN (IF winner.value = Player1 THEN params.win_score
             ELSE params.loss_score)
       ELSE IF is_draw(s) THEN 0
       ELSE position_sum(s)
            + center_control_score(s, Player1) * AsI32(params.center_control_weight)
            - center_control_score(s, Player2) * AsI32(params.center_control_weight)
            + threat_score(s, Player1) * AsI32(params.threat_weight)
            - threat_score(s, Player2) * AsI32(params.threat_weight)
            + pieces_count(s, Player1) * AsI32(params.piece_count_weight)
            - pieces_count(s, Player2) * AsI32(params.piece_count_weight)
            + mobility_score(s, Player1) * AsI32(params.mobility_weight)
            - mobility_score(s, Player2) * AsI32(params.mobility_weight)
            + vertical_control_score(s, Player1) * AsI32(params.vertical_control_weight)
            - vertical_control_score(s, Player2) * AsI32(params.vertical_control_weight)
            + horizontal_control_score(s, Player1) * AsI32(params.horizontal_control_weight)
            - horizontal_control_score(s, Player2) * AsI32(params.horizontal_control_weight)
            + defensive_score(s, Player1) * AsI32(params.defensive_weight)
            - defensive_score(s, Player2) * AsI32(params.defensive_weight)

\* the terminal scores written into evaluate itself
WIN_VALUE == 10000
LOSS_VALUE == -10000

evaluate(s) ==
    LET winner == get_winner(s) IN
    IF winner.some
    THEN (IF winner.value = Player1 THEN WIN_VALUE ELSE LOSS_VALUE)
    ELSE IF is_draw(s) THEN 0
    ELSE evaluate_with_genetic_params(s)

\* ---- AI: minimax with alpha-beta pruning and a transposition table ------
\* f32::INFINITY, as a value above every score: the scores are i32 values
\* converted to f32, all below 2^24 in magnitude and therefore exact, and
\* the infinities are only compared, never added to
F32_INFINITY == 2147483647

Max(a, b) == IF a >= b THEN a ELSE b
Min(a, b) == IF a <= b THEN a ELSE b

\* GameState::hash writes one byte per cell (0 Empty, 1 Player1, 2 Player2),
\* column by column, then current_player, and nothing else, to the hasher.
\* The 64-bit digest is modelled without collisions: the bytes of each column
\* are kept as one base-3 number, followed by the discriminant of the player.
cell_byte(cell) ==
    CASE cell = Empty -> 0 [] cell = "Player1" -> 1 [] OTHER -> 2

RECURSIVE column_bytes(_, _, _)
column_bytes(b, col, row) ==
    IF row >= ROWS THEN 0
    ELSE cell_byte(b[col][row]) + 3 * column_bytes(b, col, row + 1)

hash(s) ==
    [k \in 1..(COLS + 1) |->
        IF k <= COLS THEN column_bytes(s.board, k - 1, 0)
        ELSE (IF s.current_player = Player1 THEN 0 ELSE 1)]

\* HashMap::insert: the entry for the key is written or overwritten
table_insert(table, key, entry) == (key :> entry) @@ table

insert_entry(a, key, evaluation, depth) ==
    [a EXCEPT !.transposition_table =
        table_insert(@, key, [evaluation |-> evaluation, depth |-> depth])]

\* a lookup that never finds an entry
lookup_never(a, state_hash, depth) == None

\* a lookup that returns whatever entry the key has
lookup_any_depth(a, state_hash, depth) ==
    IF state_hash \in DOMAIN a.transposition_table
    THEN Some(a.transposition_table[state_hash])
    ELSE None

\* the lookup that opens minimax: the entry of the key, if it has one of at
\* least the requested depth
lookup(a, state_hash, depth) ==
    IF /\ state_hash \in DOMAIN a.transposition_table
       /\ a.transposition_table[state_hash].depth >= depth
    THEN Some(a.transposition_table[state_hash])
    ELSE None

RECURSIVE minimax(_, _, _, _, _)
RECURSIVE minimax_loop(_, _, _, _, _, _, _, _)

\* minimax returns the score and the AI (table and counters) it leaves behind.
\* Its two leaf returns, for depth == 0 and for is_game_over, have the same
\* body (evaluate, insert, return) and are one branch here.
minimax(a, s, depth, alpha, beta) ==
    LET state_hash == hash(s)
        entry == lookup(a, state_hash, depth)
        leaf == depth = 0 \/ is_game_over(s)
        eval == evaluate(s)
        counted == [a EXCEPT !.nodes_evaluated = @ + 1]
        valid_moves == get_valid_moves(s)
        done == minimax_loop(counted, s, depth, valid_moves, 1,
                             IF s.current_player = Player1
                             THEN -F32_INFINITY ELSE F32_INFINITY,
                             alpha, beta)
    IN CASE entry.some ->
              [score |-> entry.value.evaluation,
               ai |-> [a EXCEPT !.transposition_hits = @ + 1]]
         [] ~entry.some /\ leaf ->
              [score |-> eval, ai |-> insert_entry(a, state_hash, eval, depth)]
         [] ~entry.some /\ ~leaf /\ valid_moves = << >> ->
              [score |-> 0, ai |-> counted]
         [] OTHER ->
              [score |-> done.best_score,
               ai |-> insert_entry(done.ai, state_hash, done.best_score,
                                   depth)]

\* the loop over valid_moves of minimax, from the i-th move on; `broke` tells
\* that the loop ended by its `break`. The iterations are made in order, those
\* of the first half of the moves and then, unless the loop broke, the others
\* from the values the first half left
minimax_loop(a, s, depth, valid_moves, i, best_score, alpha, beta) ==
    LET next == make_move(s, valid_moves[i])
        child == minimax(a, next.state, depth - 1, alpha, beta)
        is_maximizing == s.current_player = Player1
        new_best == IF is_maximizing THEN Max(best_score, child.score)
                    ELSE Min(best_score, child.score)
        new_alpha == IF is_maximizing THEN Max(alpha, child.score) ELSE alpha
        new_beta == IF is_maximizing THEN beta ELSE Min(beta, child.score)
        half == (i + Len(valid_moves)) \div 2
        first == minimax_loop(a, s, depth, SubSeq(valid_moves, 1, half), i,
                              best_score, alpha, beta)
    IN CASE i > Len(valid_moves) \/ (i = Len(valid_moves) /\ ~next.result.ok) ->
              [ai |-> a, best_score |-> best_score, alpha |-> alpha,
               beta |-> beta, broke |-> FALSE]
         [] i = Len(valid_moves) /\ next.result.ok ->
              [ai |-> child.ai, best_score |-> new_best, alpha |-> new_alpha,
               beta |-> new_beta, broke |-> new_beta <= new_alpha]
         [] OTHER ->
              IF first.broke THEN first
              ELSE minimax_loop(first.ai, s, depth, valid_moves, half + 1,
                                first.best_score, first.alpha, first.beta)

MoveEvaluation(column, score, move_type) ==
    [column |-> column, score |-> score, move_type |-> move_type]

\* a test of the first loop that compares the winner with the player to move
\* after the drop
is_winning_move_of_next_player(s, next) ==
    /\ next.result.ok
    /\ has_winner(next.state)
    /\ get_winner(next.state) = Some(next.state.current_player)

\* the test of the first loop of get_best_move: the drop succeeded and made
\* the mover the winner
is_winning_move(s, next) ==
    /\ next.result.ok
    /\ has_winner(next.state)
    /\ get_winner(next.state) = Some(s.current_player)

\* the first loop of get_best_move: the first valid move after which the
\* mover is the winner, or None
RECURSIVE winning_move_from(_, _, _)
winning_move_from(s, valid_moves, i) ==
    IF i > Len(valid_moves) THEN None
    ELSE LET next == make_move(s, valid_moves[i]) IN
         IF is_winning_move(s, next)
         THEN Some(valid_moves[i])
         ELSE winning_move_from(s, valid_moves, i + 1)

\* the inner loop of the second scan: can the opponent win with one move
opponent_can_win(s, next_state) ==
    \E j \in 1..Len(get_valid_moves(next_state)) :
        LET opp_next == make_move(next_state, get_valid_moves(next_state)[j])
        IN /\ opp_next.result.ok
           /\ has_winner(opp_next.state)
           /\ get_winner(opp_next.state) = Some(opponent(s.current_player))

\* the second loop of get_best_move: the first valid move after which the
\* opponent has a winning move, or None
RECURSIVE blocking_move_from(_, _, _)
blocking_move_from(s, valid_moves, i) ==
    IF i > Len(valid_moves) THEN None
    ELSE LET next == make_move(s, valid_moves[i]) IN
         IF next.result.ok /\ opponent_can_win(s, next.state)
         THEN Some(valid_moves[i])
         ELSE blocking_move_from(s, valid_moves, i + 1)

\* a comparison of the third loop that takes the lowest score for Player1 and
\* the highest for Player2
is_better_swapped(player, score, best_score) ==
    IF player = Player1 THEN score < best_score ELSE score > best_score

\* a comparison of the third loop that also takes a score equal to the best
is_better_or_equal(player, score, best_score) ==
    IF player = Player1 THEN score >= best_score ELSE score <= best_score

\* the comparison of the third loop of get_best_move: Player1 takes a higher
\* score, Player2 a lower one
is_better(player, score, best_score) ==
    IF player = Player1 THEN score > best_score ELSE score < best_score

\* a first call of minimax that hands the depth on as it is
first_minimax_depth_same(depth) == depth

\* `depth - 1` on the u8 depth of get_best_move, in a build without overflow
\* checks: the difference wraps around
first_minimax_depth(depth) == (depth - 1) % 256

\* the third loop of get_best_move, from the i-th valid move on; depth is the
\* depth handed to minimax. The iterations are made in order, those of the
\* first half of the moves and then the others from the values the first
\* half left
RECURSIVE search_loop(_, _, _, _, _, _, _, _)
search_loop(a, s, depth, valid_moves, i, evals, best_move, best_score) ==
    LET col == valid_moves[i]
        next == make_move(s, col)
        found == minimax(a, next.state, depth, -F32_INFINITY, F32_INFINITY)
        better == is_better(s.current_player, found.score, best_score)
        half == (i + Len(valid_moves)) \div 2
    IN CASE i > Len(valid_moves) \/ (i = Len(valid_moves) /\ ~next.result.ok) ->
              [ai |-> a, move_evaluations |-> evals,
               best_move |-> best_move, best_score |-> best_score]
         [] i = Len(valid_moves) /\ next.result.ok ->
              [ai |-> found.ai,
               move_evaluations |->
                   Append(evals, MoveEvaluation(col, found.score, "drop")),
               best_move |-> IF better THEN Some(col) ELSE best_move,
               best_score |-> IF better THEN found.score ELSE best_score]
         [] OTHER ->
              CHOOSE last \in
                { search_loop(first.ai, s, depth, valid_moves, half + 1,
                              first.move_evaluations, first.best_move,
                              first.best_score)
                  : first \in
                      { search_loop(a, s, depth, SubSeq(valid_moves, 1, half),
                                    i, evals, best_move, best_score) } } : TRUE

\* a comparator that orders by descending score whoever the mover is
ordered_before_descending(e, other, descending) == e.score > other.score

\* the comparators of the two sort_by calls of get_best_move: e is ordered
\* strictly before other (descending scores for Player1, ascending for
\* Player2)
ordered_before(e, other, descending) ==
    IF descending THEN e.score > other.score ELSE e.score < other.score

\* Vec::sort_by (a stable sort): insertion of e after the entries that do not
\* come after it
RECURSIVE insert_sorted(_, _, _)
insert_sorted(sorted, e, descending) ==
    IF sorted = << >> THEN <<e>>
    ELSE LET last == sorted[Len(sorted)]
             e_first == ordered_before(e, last, descending)
         IN IF e_first
            THEN Append(insert_sorted(SubSeq(sorted, 1, Len(sorted) - 1), e,
                                      descending), last)
            ELSE Append(sorted, e)

RECURSIVE sort_by_score(_, _)
sort_by_score(evals, descending) ==
    IF evals = << >> THEN << >>
    ELSE insert_sorted(sort_by_score(SubSeq(evals, 1, Len(evals) - 1),
                                     descending),
                       evals[Len(evals)], descending)

\* what a call of get_best_move that returns hands back, with the AI it leaves
Returned(best_move, move_evaluations, a) ==
    [panicked |-> FALSE, best_move |-> best_move,
     move_evaluations |-> move_evaluations, ai |-> a]

\* AI::get_best_move after its early returns: the win scan, the block scan and
\* the search loop; reset is the AI with its counters reset
full_procedure(reset, s, valid_moves, depth, overflow_checks) ==
    LET sign == IF s.current_player = Player1 THEN 1 ELSE -1
        win == winning_move_from(s, valid_moves, 1)
        block == blocking_move_from(s, valid_moves, 1)
        searched == search_loop(reset, s, first_minimax_depth(depth),
                                valid_moves, 1, << >>, None,
                                IF s.current_player = Player1
                                THEN -F32_INFINITY ELSE F32_INFINITY)
    IN CASE win.some ->
              Returned(win, <<MoveEvaluation(win.value, sign * 10000, "win")>>,
                       reset)
         [] ~win.some /\ block.some ->
              Returned(block,
                       <<MoveEvaluation(block.value, sign * 5000, "block")>>,
                       reset)
         [] ~win.some /\ ~block.some /\ depth = 0 /\ overflow_checks ->
              [panicked |-> TRUE, ai |-> reset]
         [] OTHER ->
              [panicked |-> FALSE,
               ai |-> searched.ai,
               best_move |-> searched.best_move,
               move_evaluations |->
                   sort_by_score(searched.move_evaluations,
                                 s.current_player = Player1)]

\* a get_best_move without the early return for a single valid move
choose_move_without_shortcut(reset, s, valid_moves, depth, overflow_checks) ==
    full_procedure(reset, s, valid_moves, depth, overflow_checks)

\* AI::get_best_move from its second early return on, for a position that has
\* valid moves; reset is the AI with its counters reset
choose_move(reset, s, valid_moves, depth, overflow_checks) ==
    IF Len(valid_moves) = 1
    THEN Returned(Some(valid_moves[1]), << >>, reset)
    ELSE full_procedure(reset, s, valid_moves, depth, overflow_checks)

\* a get_best_move whose first early return is for at most one valid move and
\* hands back valid_moves[0]: the index is out of bounds, a panic, when there
\* is none
get_best_move_first_of_few(a, s, depth, overflow_checks) ==
    LET reset == [a EXCEPT !.nodes_evaluated = 0, !.transposition_hits = 0]
        valid_moves == get_valid_moves(s)
    IN IF valid_moves = << >>
       THEN [panicked |-> TRUE, ai |-> reset]
       ELSE choose_move(reset, s, valid_moves, depth, overflow_checks)

\* a get_best_move that does not reset the counters
get_best_move_counting_on(a, s, depth, overflow_checks) ==
    LET valid_moves == get_valid_moves(s)
    IN IF valid_moves = << >>
       THEN Returned(None, << >>, a)
       ELSE choose_move(a, s, valid_moves, depth, overflow_checks)

\* AI::get_best_move: the returned pair, or the panic, and the AI afterwards.
\* overflow_checks tells whether the build checks integer arithmetic (a debug
\* build) or lets it wrap (a release build): with depth 0 the `depth - 1` of
\* the third loop panics in the first and wraps to 255 in the second.
get_best_move(a, s, depth, overflow_checks) ==
    LET reset == [a EXCEPT !.nodes_evaluated = 0, !.transposition_hits = 0]
        valid_moves == get_valid_moves(s)
    IN IF valid_moves = << >>
       THEN Returned(None, << >>, reset)
       ELSE choose_move(reset, s, valid_moves, depth, overflow_checks)

\* ---- HeuristicAI ----------------------------------------------------------
\* HeuristicAI::new
NewHeuristicAI == [nodes_evaluated |-> 0]

\* a third loop that scores the position of the call, not the one after the move
RECURSIVE heuristic_loop_scoring_caller(_, _, _, _, _, _)
heuristic_loop_scoring_caller(s, valid_moves, i, evals, best_move, best_score) ==
    IF i > Len(valid_moves)
    THEN [move_evaluations |-> evals, best_move |-> best_move]
    ELSE LET col == valid_moves[i]
             next == make_move(s, col)
         IN IF next.result.ok
            THEN LET score == evaluate(s)
                     better == is_better(s.current_player, score, best_score)
                 IN heuristic_loop_scoring_caller(s, valid_moves, i + 1,
                        Append(evals, MoveEvaluation(col, score, "drop")),
                        IF better THEN col ELSE best_move,
                        IF better THEN score ELSE best_score)
            ELSE heuristic_loop_scoring_caller(s, valid_moves, i + 1, evals,
                                             best_move, best_score)

\* the third loop of HeuristicAI::get_best_move, from the i-th valid move on:
\* each move is scored by evaluate on the position after it
RECURSIVE heuristic_loop(_, _, _, _, _, _)
heuristic_loop(s, valid_moves, i, evals, best_move, best_score) ==
    IF i > Len(valid_moves)
    THEN [move_evaluations |-> evals, best_move |-> best_move]
    ELSE LET col == valid_moves[i]
             next == make_move(s, col)
         IN IF next.result.ok
            THEN LET score == evaluate(next.state)
                     better == is_better(s.current_player, score, best_score)
                 IN heuristic_loop(s, valid_moves, i + 1,
                        Append(evals, MoveEvaluation(col, score, "drop")),
                        IF better THEN col ELSE best_move,
                        IF better THEN score ELSE best_score)
            ELSE heuristic_loop(s, valid_moves, i + 1, evals, best_move,
                                best_score)

\* HeuristicAI::get_best_move: the returned pair and the HeuristicAI
\* afterwards. Its early returns and its two scans are, line for line, those
\* of AI::get_best_move; its list is sorted by descending score whoever moves.
heuristic_get_best_move(h, s) ==
    LET reset == [h EXCEPT !.nodes_evaluated = 0]
        valid_moves == get_valid_moves(s)
        sign == IF s.current_player = Player1 THEN 1 ELSE -1
    IN IF valid_moves = << >>
       THEN Returned(None, << >>, reset)
       ELSE IF Len(valid_moves) = 1
       THEN Returned(Some(valid_moves[1]), << >>, reset)
       ELSE LET win == winning_move_from(s, valid_moves, 1) IN
            IF win.some
            THEN Returned(win,
                     <<MoveEvaluation(win.value, sign * 10000, "win")>>, reset)
            ELSE LET block == blocking_move_from(s, valid_moves, 1) IN
                 IF block.some
                 THEN Returned(block,
                          <<MoveEvaluation(block.value, sign * 5000, "block")>>,
                          reset)
                 ELSE LET scored ==
                              heuristic_loop(s, valid_moves, 1, << >>,
                                  valid_moves[1],
                                  IF s.current_player = Player1
                                  THEN -F32_INFINITY ELSE F32_INFINITY)
                      IN Returned(Some(scored.best_move),
                                  sort_by_score(scored.move_evaluations, TRUE),
                                  reset)

\* ---- the caller's GameState across a get_best_move call ------------------
\* a hypothetical move played on the caller's state itself
speculate_in_place(s, col) ==
    [caller |-> make_move(s, col).state, next |-> make_move(s, col)]

\* `let mut next_state = state.clone(); next_state.make_move(col)`: the move
\* is played on a copy that shares nothing with the caller's state (the board
\* is an array of Copy cells, GeneticParams a record of numbers); caller is
\* the caller's state afterwards
speculate(s, col) == [caller |-> s, next |-> make_move(s, col)]

\* the caller's state after the iterations i..last of a loop over valid_moves
RECURSIVE caller_after_loop(_, _, _, _)
caller_after_loop(s, valid_moves, i, last) ==
    IF i > last THEN s
    ELSE caller_after_loop(speculate(s, valid_moves[i]).caller, valid_moves,
                           i + 1, last)

\* the position of col in valid_moves
index_of(valid_moves, col) ==
    CHOOSE i \in 1..Len(valid_moves) : valid_moves[i] = col

\* the caller's state after a get_best_move call (of AI or of HeuristicAI)
\* that gave r: none of the loops is entered when there are fewer than two
\* valid moves; the first loop runs up to the winning move; otherwise it runs
\* to its end and the second runs up to the blocking move; otherwise both run
\* to their ends and so does the third (a panic in its first iteration comes
\* after the copy is made and before it is used)
caller_after_get_best_move(s, r) ==
    LET valid_moves == get_valid_moves(s)
        whole == Len(valid_moves)
        scanned == caller_after_loop(s, valid_moves, 1, whole)
    IN IF whole <= 1 THEN s
       ELSE IF r.panicked
       THEN caller_after_loop(caller_after_loop(scanned, valid_moves, 1, whole),
                              valid_moves, 1, 1)
       ELSE IF r.move_evaluations # << >> /\ r.move_evaluations[1].move_type = "win"
       THEN caller_after_loop(s, valid_moves, 1,
                              index_of(valid_moves, r.best_move.value))
       ELSE IF r.move_evaluations # << >> /\ r.move_evaluations[1].move_type = "block"
       THEN caller_after_loop(scanned, valid_moves, 1,
                              index_of(valid_moves, r.best_move.value))
       ELSE caller_after_loop(
                caller_after_loop(scanned, valid_moves, 1, whole),
                valid_moves, 1, whole)

\* ---- the game in play ---------------------------------------------------
VARIABLES
    state,       \* the caller's GameState {board, current_player, genetic_params}
    ai,          \* the AI instance {transposition_table, nodes_evaluated, transposition_hits}
                 \* (in SpecInstances: the two instances, each with its AI;
                 \* in SpecEngines: an AI and a HeuristicAI; in SpecMCTS: the
                 \* MCTS)
    last_call,   \* the last operation called, its arguments and what it returned
    moves_made   \* successful make_move calls since the initial position

vars == <<state, ai, last_call, moves_made>>

\* AI::new
NewAI == [transposition_table |-> << >>, nodes_evaluated |-> 0,
          transposition_hits |-> 0]

\* the u8 column arguments tried: every column, the first index past the
\* board and the largest u8
ColArgs == (0..COLS) \cup {255}

\* Positions the games start from, each given by the make_move calls that
\* lead to it from the empty board: the empty board itself, and a middle game
\* (twelve moves, no winner yet) from which a line on each of the four axes and
\* a full column are a few moves away.
Openings == { << >>, <<0, 0, 3, 4, 6, 0, 3, 4, 4, 4, 2, 5>> }

\* the moves are made in order, those of the first half and then the others;
\* the state reached by the first half is computed before the second half is
\* played from it
RECURSIVE Replay(_, _)
Replay(s, moves) ==
    IF moves = << >> THEN s
    ELSE IF Len(moves) = 1 THEN make_move(s, moves[1]).state
    ELSE LET half == Len(moves) \div 2 IN
         CHOOSE last \in
             { Replay(middle, SubSeq(moves, half + 1, Len(moves))) :
                   middle \in {Replay(s, SubSeq(moves, 1, half))} } : TRUE

\* GameState::new (an empty board, either player first, default parameters)
\* followed by the moves of an opening
Init ==
    /\ \E first_player \in Players : \E opening \in Openings :
           state = Replay(NewGameState(first_player, DefaultParams), opening)
    /\ ai = NewAI
    /\ last_call = [op |-> "new"]
    /\ moves_made = 0

MakeMoveWithin(limit, cols) ==
    /\ moves_made < limit
    /\ \E col \in cols :
         LET r == make_move(state, col) IN
         /\ state' = r.state
         /\ last_call' = [op |-> "make_move", col |-> col, result |-> r.result]
         /\ moves_made' = IF r.result.ok THEN moves_made + 1 ELSE moves_made
    /\ UNCHANGED ai

MakeMove == MakeMoveWithin(MaxMoves, ColArgs)

GetValidMoves ==
    /\ last_call' = [op |-> "get_valid_moves", result |-> get_valid_moves(state)]
    /\ UNCHANGED <<state, ai, moves_made>>

GetWinner ==
    /\ last_call' = [op |-> "get_winner", result |-> get_winner(state)]
    /\ UNCHANGED <<state, ai, moves_made>>

Next == MakeMove \/ GetValidMoves \/ GetWinner

Spec == Init /\ [][Next]_vars

\* ---- the game with evaluate called on its positions -----------------------
ParamSets == {DefaultParams, AltParams, HighParams}

\* GameState::with_genetic_params followed by the moves of an opening
InitEval ==
    /\ \E first_player \in Players : \E opening \in Openings :
       \E params \in ParamSets :
           state = Replay(NewGameState(first_player, params), opening)
    /\ ai = NewAI
    /\ last_call = [op |-> "new"]
    /\ moves_made = 0

EvalMakeMove == MakeMoveWithin(MaxEvalMoves, ColArgs)

\* evaluate with its test piece of threat_score left on the caller's board
evaluate_call_test_in_place(s) ==
    LET valid_moves == get_valid_moves(s) IN
    [state |-> IF valid_moves = << >> THEN s
               ELSE [s EXCEPT !.board[valid_moves[1]]
                                     [get_lowest_empty_row(s, valid_moves[1])] =
                                  from_player(Player1)],
     result |-> evaluate(s)]

\* a call `state.evaluate()`: the value returned and the state behind the
\* `&self` borrow afterwards. evaluate and the functions it calls take `&self`
\* and write to locals only (score, test_board)
evaluate_call(s) == [state |-> s, result |-> evaluate(s)]

Evaluate ==
    /\ \E r \in {evaluate_call(state)} :
         /\ state' = r.state
         /\ last_call' = [op |-> "evaluate", result |-> r.result]
    /\ UNCHANGED <<ai, moves_made>>

NextEval == EvalMakeMove \/ Evaluate

SpecEval == InitEval /\ [][NextEval]_vars

\* ---- the game with get_best_move called on its positions -----------------
\* the empty board, the middle game of Openings, and three end games: EndGame,
\* EndGame with a 40th move in column 3, and WonEndGame.
\* EndGame is 39 moves that leave one empty cell in column 1 and two in column
\* 3 and that no way of filling these gives either player a line
EndGame ==
    <<5, 2, 6, 4, 0, 2, 6, 2, 5, 5, 3, 3, 3, 5, 6, 3, 5, 1, 5, 4, 0, 0, 0,
      0, 4, 0, 1, 1, 2, 6, 4, 4, 6, 2, 2, 4, 1, 6, 1>>

\* 41 moves without a winner after which the mover completes a horizontal
\* four by filling the last cell, at the top of column 1
WonEndGame ==
    <<2, 1, 5, 0, 3, 4, 2, 6, 0, 0, 0, 0, 2, 0, 6, 5, 5, 5, 5, 3, 6, 3, 3,
      2, 6, 4, 5, 1, 4, 1, 4, 4, 2, 2, 4, 6, 6, 3, 1, 3, 1>>

AIOpenings ==
    { << >>, <<0, 0, 3, 4, 6, 0, 3, 4, 4, 4, 2, 5>>, EndGame,
      Append(EndGame, 3), WonEndGame }

\* the columns played in these games
AIColArgs == {1, 3}

InitAI ==
    /\ \E first_player \in Players : \E opening \in AIOpenings :
           state = Replay(NewGameState(first_player, DefaultParams), opening)
    /\ ai = NewAI
    /\ last_call = [op |-> "new"]
    /\ moves_made = 0

AIMakeMove == MakeMoveWithin(MaxAIMoves, AIColArgs)

\* number of empty cells of the board
empty_cells(s) ==
    Cardinality({cell \in (0..(COLS - 1)) \X (0..(ROWS - 1)) :
                    s.board[cell[1]][cell[2]] = Empty})

\* the builds a call is tried in: with and without overflow checks where the
\* depth makes `depth - 1` overflow, and one build where it does not
Builds(depth) == IF depth = 0 THEN BOOLEAN ELSE {FALSE}

\* AI::get_transposition_table_size
get_transposition_table_size(a) == Cardinality(DOMAIN a.transposition_table)

\* AI::get_best_move(&state, depth) on the game's current position, with a
\* depth up to max_depth. The wrapped depth of a depth-0 call searches the
\* game to its end: that call is made on positions with at most full_cells
\* empty cells. last_call keeps the size the table had before the call.
GetBestMoveWithin(max_depth, full_cells) ==
    /\ \E depth \in 0..max_depth : \E overflow_checks \in Builds(depth) :
         /\ (depth = 0 /\ ~overflow_checks) => empty_cells(state) <= full_cells
         /\ \E r \in {get_best_move(ai, state, depth, overflow_checks)} :
            /\ ai' = r.ai
            /\ last_call' =
                  IF r.panicked
                  THEN [op |-> "get_best_move", depth |-> depth,
                        table_size |-> get_transposition_table_size(ai),
                        panicked |-> TRUE]
                  ELSE [op |-> "get_best_move", depth |-> depth,
                        table_size |-> get_transposition_table_size(ai),
                        panicked |-> FALSE, best_move |-> r.best_move,
                        move_evaluations |-> r.move_evaluations]
    /\ UNCHANGED <<state, moves_made>>

\* get_best_move by an AI whose transposition table is empty
GetBestMove ==
    /\ ai.transposition_table = << >>
    /\ GetBestMoveWithin(MaxDepth, MaxFullSearchCells)

NextAI == AIMakeMove \/ GetBestMove

SpecAI == InitAI /\ [][NextAI]_vars

\* ---- the win and block scenarios ---------------------------------------
\* Player1 drops in columns 0, 1 and 2, the other player elsewhere in between
WinScenarios ==
    { <<0, a, 1, b, 2, c>> : a \in {4, 5, 6}, b \in {4, 5, 6}, c \in {4, 5, 6} }

\* the second player stacks three pieces in column 0, the first player drops
\* elsewhere in between
BlockScenarios ==
    { <<a, 0, b, 0, c, 0>> : a \in {2, 4, 6}, b \in {2, 4, 6}, c \in {2, 4, 6} }

InitScenario ==
    /\ \E first_player \in Players :
       \E opening \in WinScenarios \cup BlockScenarios :
           state = Replay(NewGameState(first_player, DefaultParams), opening)
    /\ ai = NewAI
    /\ last_call = [op |-> "new"]
    /\ moves_made = 0

\* get_best_move by an AI whose transposition table is empty
ScenarioGetBestMove ==
    /\ ai.transposition_table = << >>
    /\ GetBestMoveWithin(MaxEndDepth, MaxFullSearchCells)

NextScenario == ScenarioGetBestMove

SpecScenario == InitScenario /\ [][NextScenario]_vars

\* ---- end games, searched to greater depths by a fresh or a used AI -------
\* EndGame with the moves 3 and 1 added: one empty cell, a draw when filled
DrawnEndGame == EndGame \o <<3, 1>>

\* 36 moves without a winner that leave six empty cells in columns 1, 3, 4
OpenEndGame ==
    <<1, 5, 5, 3, 5, 2, 4, 5, 6, 0, 6, 6, 3, 2, 5, 5, 6, 6, 2, 1, 0, 0, 2,
      2, 3, 0, 2, 4, 0, 6, 1, 4, 4, 0, 4, 1>>

EndGames == {DrawnEndGame, WonEndGame, OpenEndGame}

InitEndGame ==
    /\ \E first_player \in Players : \E opening \in EndGames :
           state = Replay(NewGameState(first_player, DefaultParams), opening)
    /\ ai = NewAI
    /\ last_call = [op |-> "new"]
    /\ moves_made = 0

EndMakeMove == MakeMoveWithin(MaxEndMoves, 0..(COLS - 1))

\* get_best_move by an AI that keeps the table of its earlier calls
EndGetBestMove == GetBestMoveWithin(MaxEndDepth, ROWS * COLS)

NextEndGame == EndMakeMove \/ EndGetBestMove

SpecEndGame == InitEndGame /\ [][NextEndGame]_vars

\* ---- boards handed in by a caller, gravity respected or not ---------------
\* GameState has public fields (and deserializes from JSON), so a caller can
\* hand the engine any board. Columns as they can be handed in, top cell
\* first: empty; a piece at the top over empty cells; a piece in the middle
\* over and under empty cells; an empty top cell over pieces with a hole among
\* them; full.
ColumnPatterns ==
    { <<Empty, Empty, Empty, Empty, Empty, Empty>>,
      <<"Player1", Empty, Empty, Empty, Empty, Empty>>,
      <<Empty, Empty, "Player2", Empty, Empty, Empty>>,
      <<Empty, "Player1", "Player2", Empty, "Player1", "Player2">>,
      <<"Player1", "Player2", "Player1", "Player2", "Player1", "Player2">> }

\* the columns that take a pattern; the other columns are empty
PatternColumns == <<0, 3>>

\* the board with pattern first in one of these columns and second in the other
AnyBoard(first, second) ==
    [col \in 0..(COLS - 1) |->
        [row \in 0..(ROWS - 1) |->
            IF col = PatternColumns[1] THEN first[row + 1]
            ELSE IF col = PatternColumns[2] THEN second[row + 1]
            ELSE Empty]]

\* the u8 column arguments tried on these boards: the two patterned columns
\* and the first index past the board
AnyColArgs == {0, 3, COLS}

InitAnyBoard ==
    /\ \E first_player \in Players :
       \E first \in ColumnPatterns : \E second \in ColumnPatterns :
           state = [board |-> AnyBoard(first, second),
                    current_player |-> first_player,
                    genetic_params |-> DefaultParams]
    /\ ai = NewAI
    /\ last_call = [op |-> "new"]
    /\ moves_made = 0

\* make_move(col), with the list get_valid_moves gives just before the call
AnyBoardMakeMove ==
    /\ moves_made < MaxAIMoves
    /\ \E col \in AnyColArgs :
         LET r == make_move(state, col) IN
         /\ state' = r.state
         /\ last_call' = [op |-> "make_move", col |-> col, result |-> r.result,
                          valid_moves |-> get_valid_moves(state)]
         /\ moves_made' = IF r.result.ok THEN moves_made + 1 ELSE moves_made
    /\ UNCHANGED ai

\* get_best_move on the board as it was handed in
AnyBoardGetBestMove ==
    /\ moves_made = 0
    /\ ai.transposition_table = << >>
    /\ GetBestMoveWithin(MaxDepth, MaxFullSearchCells)

NextAnyBoard == AnyBoardMakeMove \/ AnyBoardGetBestMove

SpecAnyBoard == InitAnyBoard /\ [][NextAnyBoard]_vars

\* ---- two AI instances whose get_best_move calls interleave ----------------
\* In this specification `ai` holds both instances. Each owns its fields
\* (struct AI has no static and takes &mut self), so a call of one instance
\* runs between any two steps of a call of the other. A call is taken in
\* steps: its start (counter reset, early returns), one step for each
\* iteration of the search loop, and its return (sort).
Instances == {1, 2}

\* calls of get_best_move each instance makes
MaxCalls == 2

\* an instance: its AI; the call it is in; what its last call returned;
\* `alone` and `alone_result` are the AI and the result of the same calls made
\* each in one piece with no other instance around; `overlapped` tells that
\* the other instance took a step during the instance's last call
NewInstance ==
    [engine |-> NewAI, pc |-> "idle", calls |-> 0, call |-> None,
     result |-> None, alone |-> NewAI, alone_result |-> None,
     overlapped |-> FALSE]

\* a process-wide table: what a step of one instance stores every instance sees
written_back_shared(instances, inst, engine) ==
    [other \in DOMAIN instances |->
        IF other = inst THEN [instances[other] EXCEPT !.engine = engine]
        ELSE [instances[other] EXCEPT
                 !.engine.transposition_table = engine.transposition_table]]

\* &mut self: a step of a call writes the fields of its own instance
written_back(instances, inst, engine) ==
    [instances EXCEPT ![inst].engine = engine]

\* the other instances see a step taken during their call
step_seen(instances, inst) ==
    [other \in DOMAIN instances |->
        IF other # inst /\ instances[other].pc = "searching"
        THEN [instances[other] EXCEPT !.overlapped = TRUE]
        ELSE instances[other]]

\* get_best_move returns from one of its early returns or from a scan
returns_early(s, valid_moves) ==
    \/ Len(valid_moves) <= 1
    \/ winning_move_from(s, valid_moves, 1).some
    \/ blocking_move_from(s, valid_moves, 1).some

\* the score of the best move so far in the search loop
best_score_so_far(s, evals, best_move) ==
    IF best_move.some
    THEN (CHOOSE e \in {evals[k] : k \in 1..Len(evals)} :
              e.column = best_move.value).score
    ELSE IF s.current_player = Player1 THEN -F32_INFINITY ELSE F32_INFINITY

InstancePositions == {EndGame, OpenEndGame}

InitInstances ==
    /\ \E first_player \in Players : \E opening \in InstancePositions :
           state = Replay(NewGameState(first_player, DefaultParams), opening)
    /\ ai = [inst \in Instances |-> NewInstance]
    /\ last_call = [op |-> "new"]
    /\ moves_made = 0

\* the start of get_best_move(&state, MaxDepth) on an instance, in a position
\* where the call reaches its search loop: counters reset, valid moves taken,
\* no early return, no move found by the two scans
BeginGetBestMove(inst) ==
    /\ ai[inst].pc = "idle"
    /\ ai[inst].calls < MaxCalls
    /\ ~returns_early(state, get_valid_moves(state))
    /\ ai' = step_seen(
               [ai EXCEPT
                  ![inst].calls = @ + 1,
                  ![inst].overlapped = FALSE,
                  ![inst].engine.nodes_evaluated = 0,
                  ![inst].engine.transposition_hits = 0,
                  ![inst].pc = "searching",
                  ![inst].call = Some([depth |-> MaxDepth,
                                       valid_moves |-> get_valid_moves(state),
                                       i |-> 1, evals |-> << >>,
                                       best_move |-> None])],
               inst)
    /\ UNCHANGED <<state, last_call, moves_made>>

\* the arguments of the search loop for the next iteration of a call
next_iteration(a, s, call) ==
    [ai |-> a, valid_moves |-> SubSeq(call.valid_moves, 1, call.i),
     i |-> call.i, evals |-> call.evals, best_move |-> call.best_move,
     best_score |-> best_score_so_far(s, call.evals, call.best_move)]

\* the arguments of the search loop for a whole call made on AI a
whole_loop(a, s, call) ==
    [ai |-> [a EXCEPT !.nodes_evaluated = 0, !.transposition_hits = 0],
     valid_moves |-> call.valid_moves,
     i |-> 1, evals |-> << >>, best_move |-> None,
     best_score |-> best_score_so_far(s, << >>, None)]

\* one iteration of the search loop of an instance's call; with the last
\* iteration, the whole call is made in one piece on the AI the instance has
\* when it runs alone
SearchStep(inst) ==
    /\ ai[inst].pc = "searching"
    /\ ai[inst].call.value.i <= Len(ai[inst].call.value.valid_moves)
    /\ \E call \in {ai[inst].call.value} :
       \E own \in {next_iteration(ai[inst].engine, state, call)} :
       \E alone \in {whole_loop(ai[inst].alone, state, call)} :
       \E searched \in
           {[args \in {own} \cup
                       (IF call.i = Len(call.valid_moves) THEN {alone} ELSE {})
               |-> search_loop(args.ai, state, first_minimax_depth(call.depth),
                               args.valid_moves, args.i, args.evals,
                               args.best_move, args.best_score)]} :
         ai' = step_seen(
                 [written_back(ai, inst, searched[own].ai) EXCEPT
                     ![inst].call =
                         Some([call EXCEPT
                                 !.i = @ + 1,
                                 !.evals = searched[own].move_evaluations,
                                 !.best_move = searched[own].best_move]),
                     ![inst].alone =
                         IF call.i = Len(call.valid_moves)
                         THEN searched[alone].ai ELSE @,
                     ![inst].alone_result =
                         IF call.i = Len(call.valid_moves)
                         THEN Some(<<searched[alone].best_move,
                                     sort_by_score(
                                         searched[alone].move_evaluations,
                                         state.current_player = Player1)>>)
                         ELSE @],
                 inst)
    /\ UNCHANGED <<state, last_call, moves_made>>

\* the return of an instance's call: the sorted list and the best move
ReturnBestMove(inst) ==
    /\ ai[inst].pc = "searching"
    /\ ai[inst].call.value.i > Len(ai[inst].call.value.valid_moves)
    /\ LET call == ai[inst].call.value IN
       ai' = step_seen(
               [ai EXCEPT
                  ![inst].pc = "idle",
                  ![inst].call = None,
                  ![inst].result =
                      Some(<<call.best_move,
                             sort_by_score(call.evals,
                                           state.current_player = Player1)>>)],
               inst)
    /\ UNCHANGED <<state, last_call, moves_made>>

NextInstances ==
    \E inst \in Instances :
        \/ BeginGetBestMove(inst)
        \/ SearchStep(inst)
        \/ ReturnBestMove(inst)

SpecInstances == InitInstances /\ [][NextInstances]_vars

\* ---- a game on which both engines are asked for a move --------------------
\* In this specification `ai` holds an AI and a HeuristicAI. The positions:
\* the empty board, the middle game of Openings, EndGame, a position of
\* WinScenarios and a position of BlockScenarios.
EnginePositions ==
    { << >>, <<0, 0, 3, 4, 6, 0, 3, 4, 4, 4, 2, 5>>, EndGame,
      <<0, 4, 1, 5, 2, 6>>, <<2, 0, 2, 0, 4, 0>> }

InitEngines ==
    /\ \E first_player \in Players : \E opening \in EnginePositions :
           state = Replay(NewGameState(first_player, DefaultParams), opening)
    /\ ai = [minimax |-> NewAI, heuristic |-> NewHeuristicAI]
    /\ last_call = [op |-> "new"]
    /\ moves_made = 0

EnginesMakeMove == MakeMoveWithin(MaxAIMoves, AIColArgs)

\* AI::get_best_move(&state, depth) by an AI that has not searched yet; the
\* caller's state is what the call's copies and drops leave of it
EnginesGetBestMove ==
    /\ ai.minimax.transposition_table = << >>
    /\ \E depth \in 0..MaxDepth : \E overflow_checks \in Builds(depth) :
         /\ (depth = 0 /\ ~overflow_checks) =>
                empty_cells(state) <= MaxFullSearchCells
         /\ \E r \in {get_best_move(ai.minimax, state, depth,
                                     overflow_checks)} :
            /\ ai' = [ai EXCEPT !.minimax = r.ai]
            /\ state' = caller_after_get_best_move(state, r)
            /\ last_call' =
                  IF r.panicked
                  THEN [op |-> "get_best_move", engine |-> "AI",
                        depth |-> depth, before |-> state, panicked |-> TRUE]
                  ELSE [op |-> "get_best_move", engine |-> "AI",
                        depth |-> depth, before |-> state, panicked |-> FALSE,
                        best_move |-> r.best_move,
                        move_evaluations |-> r.move_evaluations]
    /\ UNCHANGED moves_made

\* HeuristicAI::get_best_move(&state)
EnginesHeuristicGetBestMove ==
    /\ \E r \in {heuristic_get_best_move(ai.heuristic, state)} :
         /\ ai' = [ai EXCEPT !.heuristic = r.ai]
         /\ state' = caller_after_get_best_move(state, r)
         /\ last_call' = [op |-> "get_best_move", engine |-> "HeuristicAI",
                          before |-> state, panicked |-> FALSE,
                          best_move |-> r.best_move,
                          move_evaluations |-> r.move_evaluations]
    /\ UNCHANGED moves_made

NextEngines ==
    EnginesMakeMove \/ EnginesGetBestMove \/ EnginesHeuristicGetBestMove

SpecEngines == InitEngines /\ [][NextEngines]_vars

\* ---- one AI asked about positions that differ in their GeneticParams ------
\* The caller hands the same AI a state with the same board and player but
\* other genetic_params (a public field of GameState), and asks again.
ParamsPositions ==
    { << >>, <<0, 0, 3, 4, 6, 0, 3, 4, 4, 4, 2, 5>>, EndGame }

InitParams ==
    /\ \E first_player \in Players : \E opening \in ParamsPositions :
       \E params \in ParamSets :
           state = Replay(NewGameState(first_player, params), opening)
    /\ ai = NewAI
    /\ last_call = [op |-> "new"]
    /\ moves_made = 0

\* state.genetic_params = params
SetGeneticParams ==
    /\ \E params \in ParamSets \ {state.genetic_params} :
         /\ state' = [state EXCEPT !.genetic_params = params]
         /\ last_call' = [op |-> "set_genetic_params"]
    /\ UNCHANGED <<ai, moves_made>>

\* get_best_move(&state, MaxDepth) by the AI, whatever it searched before
ParamsGetBestMove ==
    /\ \E r \in {get_best_move(ai, state, MaxDepth, FALSE)} :
         /\ ai' = r.ai
         /\ last_call' = [op |-> "get_best_move", depth |-> MaxDepth,
                          table_size |-> get_transposition_table_size(ai),
                          panicked |-> FALSE, best_move |-> r.best_move,
                          move_evaluations |-> r.move_evaluations]
    /\ UNCHANGED <<state, moves_made>>

NextParams == SetGeneticParams \/ ParamsGetBestMove

SpecParams == InitParams /\ [][NextParams]_vars

\* ---- whole games ------------------------------------------------------------
\* training.rs, play_game_with_move_count: `let max_moves = 42`
max_moves == 42

\* training.rs, play_game_with_move_count: `ai.get_best_move(&game_state, 3)`
GAME_SEARCH_DEPTH == 3

\* the indexes `rand::thread_rng().gen_range(0..valid_moves.len())` gives: any
\* index of valid_moves; the first and the last are tried during the first
\* MaxMoves moves of a game, the first afterwards
gen_range(valid_moves, moves_played) ==
    IF moves_played < MaxMoves THEN {1, Len(valid_moves)} ELSE {1}

\* the result of play_game_with_move_count: the AI plays Player2
game_result(s) ==
    LET winner == get_winner(s) IN
    IF winner.some
    THEN (IF winner.value = Player2 THEN "Win" ELSE "Loss")
    ELSE "Draw"

\* games of make_move calls alone start after the moves of EndGame, of
\* WonEndGame or of OpenEndGame, all of which succeeded
GameOpenings == {EndGame, WonEndGame, OpenEndGame}

\* either a caller's game of make_move calls, or play_game_with_move_count
\* entered with the state of GameState::with_genetic_params
InitGame ==
    /\ ai = NewAI
    /\ \E first_player \in Players :
         \/ \E opening \in GameOpenings :
               /\ state = Replay(NewGameState(first_player, DefaultParams),
                                 opening)
               /\ moves_made = Len(opening)
               /\ last_call = [op |-> "new"]
         \/ /\ state = NewGameState(first_player, DefaultParams)
            /\ moves_made = 0
            /\ last_call = [op |-> "play_game_with_move_count",
                            pc |-> "loop", failed |-> FALSE]

\* make_move(col) by the caller, whoever is to move and whether or not the
\* game is over
GameMakeMove ==
    /\ last_call.op # "play_game_with_move_count"
    /\ \E col \in 0..COLS :
         LET r == make_move(state, col) IN
         /\ state' = r.state
         /\ last_call' = [op |-> "make_move", col |-> col, result |-> r.result]
         /\ moves_made' = IF r.result.ok THEN moves_made + 1 ELSE moves_made
    /\ UNCHANGED ai

\* one iteration of the loop of play_game_with_move_count; moves_made is its
\* moves_played
PlayGameIteration ==
    /\ last_call.op = "play_game_with_move_count"
    /\ last_call.pc = "loop"
    /\ ~is_game_over(state)
    /\ moves_made < max_moves
    /\ \E valid_moves \in {get_valid_moves(state)} :
         IF valid_moves = << >>
         THEN /\ last_call' = [last_call EXCEPT !.pc = "after_loop"]
              /\ UNCHANGED <<state, ai, moves_made>>
         ELSE \E r \in (IF state.current_player = Player2
                        THEN {get_best_move(ai, state, GAME_SEARCH_DEPTH,
                                            FALSE)}
                        ELSE {Returned(Some(valid_moves[i]), << >>, ai) :
                                 i \in gen_range(valid_moves, moves_made)}) :
              \E moved \in {make_move(state,
                                 IF r.best_move.some THEN r.best_move.value
                                 ELSE valid_moves[1])} :
                /\ ai' = r.ai
                /\ state' = moved.state
                /\ moves_made' = IF moved.result.ok THEN moves_made + 1
                                 ELSE moves_made
                /\ last_call' = IF moved.result.ok THEN last_call
                                ELSE [last_call EXCEPT !.pc = "after_loop",
                                                       !.failed = TRUE]

\* the end of play_game_with_move_count: the result and the moves played
PlayGameReturn ==
    /\ last_call.op = "play_game_with_move_count"
    /\ \/ last_call.pc = "after_loop"
       \/ /\ last_call.pc = "loop"
          /\ ~(~is_game_over(state) /\ moves_made < max_moves)
    /\ last_call' = [last_call EXCEPT !.pc = "returned"] @@
                    [result |-> game_result(state), moves |-> moves_made]
    /\ UNCHANGED <<state, ai, moves_made>>

NextGame == GameMakeMove \/ PlayGameIteration \/ PlayGameReturn

SpecGame == InitGame /\ [][NextGame]_vars

\* ---- MCTS (mcts.rs) -------------------------------------------------------
\* In this specification `ai` holds the MCTS {nodes, exploration_constant,
\* num_simulations}, `state` the root_state handed to search, and last_call
\* the place the call of search has come to. Node indexes are those of the
\* code, from 0: the node of index idx is nodes[idx + 1].
MaxSimulations == 2

\* visits a node is taken to before the walk of backpropagate is cut off
MaxVisits == 3

\* MAX_ROLLOUT_DEPTH of MCTS::rollout
MAX_ROLLOUT_DEPTH == 20

\* the policy_fn of test_mcts_search, `vec![1.0 / 7.0; 7]`, in thousandths
policy_fn(s) == [k \in 1..7 |-> 1000 \div 7]

\* MCTSNode::new
NewMCTSNode(s, parent, prior_probability) ==
    [state |-> s, parent |-> parent, children |-> << >>, visits |-> 0,
     total_value |-> 0, prior_probability |-> prior_probability,
     is_terminal |-> is_game_over(s), valid_moves |-> get_valid_moves(s)]

\* MCTSNode::is_fully_expanded
is_fully_expanded(node) == Len(node.children) >= Len(node.valid_moves)

\* MCTS::new
NewMCTS(exploration_constant, num_simulations) ==
    [nodes |-> << >>, exploration_constant |-> exploration_constant,
     num_simulations |-> num_simulations]

\* MCTS::add_node: the MCTS afterwards; the new node's index is the former
\* length of nodes
add_node(mcts, s, parent, prior_probability) ==
    [mcts EXCEPT !.nodes = Append(@, NewMCTSNode(s, parent, prior_probability))]

\* MCTS::get_terminal_value
get_terminal_value(s) ==
    LET winner == get_winner(s) IN
    IF winner.some THEN (IF winner.value = Player1 THEN 1 ELSE -1) ELSE 0

\* MCTS::get_move_from_parent, from column col on
RECURSIVE move_from_parent_from(_, _, _)
move_from_parent_from(parent_state, child_state, col) ==
    IF col >= COLS THEN 0
    ELSE LET test == make_move(parent_state, col) IN
         IF test.result.ok /\ test.state.board = child_state.board THEN col
         ELSE move_from_parent_from(parent_state, child_state, col + 1)

get_move_from_parent(mcts, parent_idx, child_idx) ==
    move_from_parent_from(mcts.nodes[parent_idx + 1].state,
                          mcts.nodes[child_idx + 1].state, 0)

\* the first valid move of the node that no child was made with, or 0
unexpanded_move(mcts, node_idx) ==
    LET node == mcts.nodes[node_idx + 1]
        expanded_moves == {get_move_from_parent(mcts, node_idx,
                                                node.children[k]) :
                              k \in 1..Len(node.children)}
        unexpanded == {i \in 1..Len(node.valid_moves) :
                          node.valid_moves[i] \notin expanded_moves}
    IN IF unexpanded = {} THEN 0
       ELSE node.valid_moves[CHOOSE i \in unexpanded :
                                 \A j \in unexpanded : i <= j]

\* MCTS::expand_node: the MCTS afterwards and the index it returns
expand_node(mcts, node_idx) ==
    LET node == mcts.nodes[node_idx + 1]
        policy == policy_fn(node.state)
        mv == unexpanded_move(mcts, node_idx)
        new == make_move(node.state, mv)
    IN IF new.result.ok
       THEN [mcts |-> [add_node(mcts, new.state, Some(node_idx),
                                IF mv + 1 \in DOMAIN policy
                                THEN policy[mv + 1] ELSE 0)
                          EXCEPT !.nodes[node_idx + 1].children =
                                     Append(@, Len(mcts.nodes))],
             idx |-> Len(mcts.nodes)]
       ELSE [mcts |-> mcts, idx |-> node_idx]

\* MCTS::rollout: the values its random play can end with, from a state
\* reached at the given depth of the play
RECURSIVE rollout(_, _)
rollout(s, depth) ==
    IF ~(~is_game_over(s) /\ depth < MAX_ROLLOUT_DEPTH)
    THEN {get_terminal_value(s)}
    ELSE LET valid_moves == get_valid_moves(s) IN
         IF valid_moves = << >> THEN {get_terminal_value(s)}
         ELSE UNION { LET moved == make_move(s, valid_moves[i]) IN
                      IF ~moved.result.ok THEN {get_terminal_value(s)}
                      ELSE rollout(moved.state, depth + 1) :
                      i \in gen_range(valid_moves, depth) }

\* the root states handed to search: the empty board, the middle game of
\* Openings, EndGame, DrawnEndGame, a full board with a line, and a board
\* with a line of the first player on the bottom row and 35 empty cells
MCTSRoots ==
    { << >>, <<0, 0, 3, 4, 6, 0, 3, 4, 4, 4, 2, 5>>, EndGame, DrawnEndGame,
      Append(WonEndGame, 1), <<0, 4, 1, 5, 2, 6, 3>> }

InitMCTS ==
    /\ \E first_player \in Players : \E opening \in MCTSRoots :
           state = Replay(NewGameState(first_player, DefaultParams), opening)
    /\ \E num_simulations \in 1..MaxSimulations :
           ai = NewMCTS(1, num_simulations)
    /\ last_call = [op |-> "new"]
    /\ moves_made = 0

\* MCTS::search up to its loop: the root node is added
MCTSSearch ==
    /\ last_call.op = "new"
    /\ ai' = add_node(ai, state, None, 1000)
    /\ last_call' = [op |-> "search", pc |-> "simulations", root_idx |-> 0,
                     simulations_left |-> ai.num_simulations]
    /\ UNCHANGED <<state, moves_made>>

\* one iteration of the loop of search, simulate(root_idx, ..), up to its
\* return or to the call of backpropagate. The branch of simulate for a fully
\* expanded node is left out: it takes a second simulation of a root that is
\* not terminal, and no first one gets back from backpropagate.
MCTSSimulate ==
    /\ last_call.op = "search"
    /\ last_call.pc = "simulations"
    /\ last_call.simulations_left > 0
    /\ LET node == ai.nodes[last_call.root_idx + 1] IN
       \/ /\ node.is_terminal
          /\ last_call' = [last_call EXCEPT !.simulations_left = @ - 1]
          /\ UNCHANGED ai
       \/ /\ ~node.is_terminal
          /\ ~is_fully_expanded(node)
          /\ \E expanded \in {expand_node(ai, last_call.root_idx)} :
             \E value \in rollout(expanded.mcts.nodes[expanded.idx + 1].state,
                                  0) :
               /\ ai' = expanded.mcts
               /\ last_call' = [op |-> "search", pc |-> "backpropagate",
                                root_idx |-> last_call.root_idx,
                                simulations_left |-> last_call.simulations_left,
                                node_idx |-> expanded.idx,
                                current_idx |-> expanded.idx,
                                value |-> value, updated |-> << >>]
    /\ UNCHANGED <<state, moves_made>>

\* one iteration of the loop of backpropagate; `updated` lists the nodes the
\* call has updated so far. When the loop breaks simulate returns and the
\* loop of search goes on.
MCTSBackpropagate ==
    /\ last_call.op = "search"
    /\ last_call.pc = "backpropagate"
    /\ last_call.current_idx < Len(ai.nodes)
    /\ ai.nodes[last_call.current_idx + 1].visits < MaxVisits
    /\ LET node == ai.nodes[last_call.current_idx + 1]
           next_idx == IF node.parent.some THEN node.parent.value
                       ELSE last_call.current_idx
       IN /\ ai' = [ai EXCEPT
                      !.nodes[last_call.current_idx + 1].visits = @ + 1,
                      !.nodes[last_call.current_idx + 1].total_value =
                          @ + last_call.value]
          /\ last_call' =
                IF next_idx = last_call.node_idx
                THEN [op |-> "search", pc |-> "simulations",
                      root_idx |-> last_call.root_idx,
                      simulations_left |-> last_call.simulations_left - 1]
                ELSE [last_call EXCEPT
                        !.current_idx = next_idx,
                        !.updated = Append(@, last_call.current_idx)]
    /\ UNCHANGED <<state, moves_made>>

\* the places in the root's children of the nodes the move leads to
made_with(mcts, root_idx, mv) ==
    LET children == mcts.nodes[root_idx + 1].children
    IN {k \in 1..Len(children) :
           get_move_from_parent(mcts, root_idx, children[k]) = mv}

\* the visit count max_by compares a move by: `position` gives the place of
\* the move's child in root_node.children, 0 if it has none, and self.nodes is
\* indexed with that place
visits_of_move(mcts, root_idx, mv) ==
    LET made == made_with(mcts, root_idx, mv)
        position == IF made = {} THEN 0
                    ELSE (CHOOSE k \in made : \A j \in made : k <= j) - 1
    IN mcts.nodes[position + 1].visits

\* the visits of the root's child the move leads to, as move_probs takes
\* them: 0 without a child, those of the last such child otherwise
child_visits_of_move(mcts, root_idx, mv) ==
    LET children == mcts.nodes[root_idx + 1].children
        made == made_with(mcts, root_idx, mv)
    IN IF made = {} THEN 0
       ELSE mcts.nodes[children[CHOOSE k \in made :
                                   \A j \in made : k >= j] + 1].visits

\* Iterator::max_by over valid_moves: the last of the moves with most visits
RECURSIVE max_by_visits(_, _, _, _)
max_by_visits(mcts, root_idx, valid_moves, i) ==
    IF i = Len(valid_moves) THEN valid_moves[i]
    ELSE LET rest == max_by_visits(mcts, root_idx, valid_moves, i + 1) IN
         IF visits_of_move(mcts, root_idx, valid_moves[i])
                > visits_of_move(mcts, root_idx, rest)
         THEN valid_moves[i] ELSE rest

\* the end of search: the visit counts of the root's children and the move
\* with the most visits (move_probs, the counts over their sum, is kept as
\* the pair of both)
MCTSReturn ==
    /\ last_call.op = "search"
    /\ last_call.pc = "simulations"
    /\ last_call.simulations_left = 0
    /\ LET root_node == ai.nodes[last_call.root_idx + 1]
           child_visits ==
               [col \in 0..(COLS - 1) |->
                   child_visits_of_move(ai, last_call.root_idx, col)]
       IN last_call' =
            [op |-> "search", pc |-> "returned",
             best_move |-> IF root_node.valid_moves = << >> THEN 0
                           ELSE max_by_visits(ai, last_call.root_idx,
                                              root_node.valid_moves, 1),
             child_visits |-> child_visits]
    /\ UNCHANGED <<state, ai, moves_made>>

NextMCTS == MCTSSearch \/ MCTSSimulate \/ MCTSBackpropagate \/ MCTSReturn

SpecMCTS == InitMCTS /\ [][NextMCTS]_vars

\* ---- games from GameState::new (tests/game_logic_test.rs) ------------------
\* the moves of the longest game of test_win_detection
MaxTestMoves == 7

\* the columns test_win_detection drops into
TestColArgs == {0, 1}

\* the drops of test_win_detection
TestWinDrops == <<0, 1, 0, 1, 0, 1, 0>>

\* GameState::new: new_random_first_player draws the player to move
InitNewGame ==
    /\ \E first_player \in Players :
           state = NewGameState(first_player, DefaultParams)
    /\ ai = NewAI
    /\ last_call = [op |-> "new"]
    /\ moves_made = 0

NewGameMakeMove == MakeMoveWithin(MaxTestMoves, TestColArgs)

NextNewGame == NewGameMakeMove \/ GetWinner

SpecNewGame == InitNewGame /\ [][NextNewGame]_vars

\* ---- searches that come to drawn positions --------------------------------
\* EndGame leaves three empty cells and no line to either player: every
\* search of depth 2 and more from it or from the positions after it comes
\* to a full board without a winner
InitDraws ==
    /\ \E first_player \in Players :
           state = Replay(NewGameState(first_player, DefaultParams), EndGame)
    /\ ai = NewAI
    /\ last_call = [op |-> "new"]
    /\ moves_made = 0

DrawsMakeMove == MakeMoveWithin(MaxEndMoves, 0..(COLS - 1))

\* get_best_move by an AI that keeps the table of its earlier calls
DrawsGetBestMove == GetBestMoveWithin(MaxEndDepth, ROWS * COLS)

NextDraws == DrawsMakeMove \/ DrawsGetBestMove

SpecDraws == InitDraws /\ [][NextDraws]_vars

\* ---- an AI whose table is cleared between searches ------------------------
\* a clear that leaves the entries of depth 1 and more in the table
clear_depth_zero_entries(a) ==
    [a EXCEPT !.transposition_table =
        [key \in {k \in DOMAIN @ : @[k].depth > 0} |-> @[key]]]

\* AI::clear_transposition_table: HashMap::clear; the counters stay
clear_transposition_table(a) == [a EXCEPT !.transposition_table = << >>]

ClearTranspositionTable ==
    /\ last_call.op # "clear_transposition_table"
    /\ ai' = clear_transposition_table(ai)
    /\ last_call' = [op |-> "clear_transposition_table",
                     table_size |-> get_transposition_table_size(ai)]
    /\ UNCHANGED <<state, moves_made>>

\* the drawn end game of SpecDraws, searched by an AI that keeps its table
\* from call to call until the caller clears it
NextCache == DrawsMakeMove \/ DrawsGetBestMove \/ ClearTranspositionTable

SpecCache == InitDraws /\ [][NextCache]_vars

\* ---- properties of the board model --------------------------------------
\* number of pieces a column holds
ColumnHeight(b, col) ==
    Cardinality({row \in 0..(ROWS - 1) : b[col][row] # Empty})

\* the empty cell of a column that has no empty cell below it
LowestEmptyCell(b, col) ==
    CHOOSE row \in 0..(ROWS - 1) :
        /\ b[col][row] = Empty
        /\ \A below \in (row + 1)..(ROWS - 1) : b[col][below] # Empty

\* player has four cells in a line starting at (col, row) in direction d
LineAt(b, player, col, row, d) ==
    \A k \in 0..3 :
        /\ col + k * d[1] \in 0..(COLS - 1)
        /\ row + k * d[2] \in 0..(ROWS - 1)
        /\ b[col + k * d[1]][row + k * d[2]] = player

Axes == { <<1, 0>>, <<0, 1>>, <<1, 1>>, <<1, -1>> }

HasLineOn(b, player, axes) ==
    \E col \in 0..(COLS - 1) : \E row \in 0..(ROWS - 1) : \E d \in axes :
        LineAt(b, player, col, row, d)

HasLine(b, player) == HasLineOn(b, player, Axes)

\* C1: make_move(col) on a column that already holds 6 pieces returns
\* Err("Column is full") and leaves the board exactly as it was.
C1_FullColumnRejected ==
    [][ ( /\ last_call'.op = "make_move"
          /\ last_call'.col < COLS
          /\ ColumnHeight(state.board, last_call'.col) = ROWS )
        => ( /\ last_call'.result = Err("Column is full")
             /\ state'.board = state.board ) ]_vars

C1_Witness ==
    /\ last_call.op = "make_move"
    /\ last_call.col < COLS
    /\ ColumnHeight(state.board, last_call.col) = ROWS
    /\ last_call.result = Err("Column is full")

\* C2: a successful make_move(col) writes the mover's piece into the lowest
\* empty cell of column col, changes no other cell, and hands the turn to the
\* mover's opponent.
C2_MoveEffect ==
    [][ ( /\ last_call'.op = "make_move"
          /\ last_call'.result.ok )
        => LET col == last_call'.col
               row == LowestEmptyCell(state.board, col)
           IN /\ state'.board[col][row] = state.current_player
              /\ \A c \in 0..(COLS - 1) : \A r \in 0..(ROWS - 1) :
                     (c # col \/ r # row)
                         => state'.board[c][r] = state.board[c][r]
              /\ state'.current_player \in Players \ {state.current_player}
      ]_vars

C2_Witness ==
    /\ last_call.op = "make_move"
    /\ last_call.result.ok
    /\ ColumnHeight(state.board, last_call.col) >= 2
    /\ state.board[last_call.col][ROWS - ColumnHeight(state.board, last_call.col)]
           # state.current_player

\* C3: gravity; in every reachable state no empty cell lies below an
\* occupied cell, whatever calls (successful or failing) were made.
C3_Gravity ==
    \A col \in 0..(COLS - 1) : \A row \in 0..(ROWS - 2) :
        state.board[col][row] # Empty => state.board[col][row + 1] # Empty

C3_Witness ==
    /\ last_call.op = "make_move"
    /\ ~last_call.result.ok
    /\ \E col \in 0..(COLS - 1) :
           ColumnHeight(state.board, col) \in 2..(ROWS - 1)
    /\ moves_made >= 2

\* C4: current_player strictly alternates; it changes exactly on a
\* successful make_move, and the piece such a move places belongs to the
\* player whose turn it was.
C4_Alternation ==
    [][ /\ (state'.current_player # state.current_player)
            <=> (last_call'.op = "make_move" /\ last_call'.result.ok)
        /\ (last_call'.op = "make_move" /\ last_call'.result.ok)
            => /\ pieces_count(state', state.current_player)
                      = pieces_count(state, state.current_player) + 1
               /\ pieces_count(state', state'.current_player)
                      = pieces_count(state, state'.current_player)
      ]_vars

C4_Witness ==
    /\ last_call.op = "make_move"
    /\ last_call.result.ok
    /\ moves_made >= 3
    /\ state.current_player = Player1

\* C5: a failing make_move is an Err value ("Invalid column" for col >= 7,
\* "Column is full" for a full column) and leaves current_player (and the
\* rest of the state) unchanged.
C5_FailedMove ==
    [][ last_call'.op = "make_move"
        => /\ last_call'.col >= COLS
               => last_call'.result = Err("Invalid column")
           /\ (last_call'.col < COLS
                 /\ ColumnHeight(state.board, last_call'.col) = ROWS)
               => last_call'.result = Err("Column is full")
           /\ (last_call'.col < COLS
                 /\ ColumnHeight(state.board, last_call'.col) < ROWS)
               => last_call'.result = Ok
           /\ ~last_call'.result.ok
               => /\ state'.current_player = state.current_player
                  /\ state' = state
      ]_vars

C5_Witness ==
    /\ last_call.op = "make_move"
    /\ last_call.col >= COLS
    /\ last_call.result = Err("Invalid column")
    /\ moves_made >= 1

\* C6: get_valid_moves returns, strictly ascending, exactly the columns
\* that hold fewer than 6 pieces.
C6_ValidMoves ==
    last_call.op = "get_valid_moves"
    => LET moves == last_call.result IN
       /\ \A i \in 1..(Len(moves) - 1) : moves[i] < moves[i + 1]
       /\ \A i \in 1..Len(moves) : moves[i] \in 0..(COLS - 1)
       /\ \A col \in 0..(COLS - 1) :
              (\E i \in 1..Len(moves) : moves[i] = col)
                  <=> ColumnHeight(state.board, col) < ROWS

C6_Witness ==
    /\ last_call.op = "get_valid_moves"
    /\ Len(last_call.result) = COLS - 1
    /\ \E col \in 0..(COLS - 1) : ColumnHeight(state.board, col) = ROWS

\* C7: on a board where at most one player has a line, get_winner returns
\* Some(P) iff P has 4 contiguous cells on a horizontal, vertical or diagonal
\* line, and None iff neither player has one.
C7_WinDetection ==
    ( /\ last_call.op = "get_winner"
      /\ ~(HasLine(state.board, Player1) /\ HasLine(state.board, Player2)) )
    => /\ \A player \in Players :
              (last_call.result = Some(player)) <=> HasLine(state.board, player)
       /\ (last_call.result = None)
              <=> \A player \in Players : ~HasLine(state.board, player)

C7_Witness ==
    /\ last_call.op = "get_winner"
    /\ last_call.result.some
    /\ HasLineOn(state.board, last_call.result.value, { <<1, -1>> })
    /\ ~HasLineOn(state.board, last_call.result.value,
                  { <<1, 0>>, <<0, 1>>, <<1, 1>> })
    /\ ~HasLine(state.board, opponent(last_call.result.value))

\* ---- properties of the evaluation function ------------------------------
\* C8: on a board where Player1 (alone) has four in a row, evaluate returns
\* the state's genetic_params.win_score; where Player2 (alone) has four in a
\* row it returns genetic_params.loss_score; for every parameter set.
C8_TerminalScoreFromParams ==
    last_call.op = "evaluate"
    => /\ (HasLine(state.board, Player1) /\ ~HasLine(state.board, Player2))
              => last_call.result = state.genetic_params.win_score
       /\ (HasLine(state.board, Player2) /\ ~HasLine(state.board, Player1))
              => last_call.result = state.genetic_params.loss_score

\* C9: evaluate on the empty board returns 0, for each parameter set and
\* either player to move.
C9_EmptyBoardZero ==
    (last_call.op = "evaluate" /\ state.board = EmptyBoard)
    => last_call.result = 0

C9_Witness ==
    /\ last_call.op = "evaluate"
    /\ state.board = EmptyBoard
    /\ state.genetic_params = DefaultParams
    /\ state.current_player = Player2
    /\ last_call.result = 0

\* C10: whenever get_best_move returns Some(col), col is one of the valid moves
\* of the state it was called on, and it returns None only when that state
\* has no valid move; for every position and every depth tried
C10_BestMoveIsValid ==
    (last_call.op = "get_best_move" /\ ~last_call.panicked) =>
        LET valid_moves == get_valid_moves(state) IN
        /\ last_call.best_move.some =>
               \E i \in 1..Len(valid_moves) :
                   valid_moves[i] = last_call.best_move.value
        /\ ~last_call.best_move.some => valid_moves = << >>

\* the third loop has scored several moves of a position with a full column
\* and the call returned one of the valid moves
C10_Witness ==
    /\ last_call.op = "get_best_move"
    /\ ~last_call.panicked
    /\ Len(last_call.move_evaluations) > 1
    /\ Len(get_valid_moves(state)) < COLS
    /\ last_call.best_move.some
    /\ \E i \in 1..Len(get_valid_moves(state)) :
           get_valid_moves(state)[i] = last_call.best_move.value

\* get_best_move returned None on a full board
C10_NoneOnFullBoard ==
    /\ last_call.op = "get_best_move"
    /\ ~last_call.panicked
    /\ ~last_call.best_move.some
    /\ get_valid_moves(state) = << >>

\* a depth-0 call went through the third loop with the wrapped depth
C10_DepthZeroSearched ==
    /\ last_call.op = "get_best_move"
    /\ last_call.depth = 0
    /\ ~last_call.panicked
    /\ Len(last_call.move_evaluations) > 1

\* a depth-0 call panicked on `depth - 1`
C10_DepthZeroPanicked ==
    /\ last_call.op = "get_best_move"
    /\ last_call.panicked

\* ---- properties of get_best_move ------------------------------------------
\* the columns a piece can be dropped in: those with an empty cell
LegalColumns(s) == {col \in 0..(COLS - 1) : ColumnHeight(s.board, col) < ROWS}

\* the board after player drops a piece in a legal column
Dropped(b, col, player) ==
    [b EXCEPT ![col][LowestEmptyCell(b, col)] = player]

\* neither player has a line yet
NoLineYet(s) == \A player \in Players : ~HasLine(s.board, player)

\* the legal columns in which a piece of player completes a line
WinningColumns(s, player) ==
    {col \in LegalColumns(s) : HasLine(Dropped(s.board, col, player), player)}

\* the last call was a get_best_move call that returned
Returned_get_best_move == last_call.op = "get_best_move" /\ ~last_call.panicked

\* the evaluation list classifies the returned column as move_type
ClassifiedAs(move_type) ==
    /\ last_call.best_move.some
    /\ \E i \in 1..Len(last_call.move_evaluations) :
          /\ last_call.move_evaluations[i].column = last_call.best_move.value
          /\ last_call.move_evaluations[i].move_type = move_type

\* C11: whenever a legal move wins immediately for the mover, get_best_move
\* returns a winning move and an evaluation entry classifying it as "win",
\* whatever the depth and the number of legal moves
C11_WinningMoveTaken ==
    (/\ last_call.op = "get_best_move"
     /\ NoLineYet(state)
     /\ WinningColumns(state, state.current_player) # {}) =>
        /\ ~last_call.panicked
        /\ last_call.best_move.some
        /\ last_call.best_move.value
               \in WinningColumns(state, state.current_player)
        /\ ClassifiedAs("win")

\* the same with two legal moves or more
C11_WinningMoveTakenOfSeveral ==
    (/\ last_call.op = "get_best_move"
     /\ NoLineYet(state)
     /\ Cardinality(LegalColumns(state)) >= 2
     /\ WinningColumns(state, state.current_player) # {}) =>
        /\ ~last_call.panicked
        /\ last_call.best_move.some
        /\ last_call.best_move.value
               \in WinningColumns(state, state.current_player)
        /\ ClassifiedAs("win")

\* the positions of the win scenario with Player1 as the first player
WinScenarioStates ==
    { Replay(NewGameState(Player1, DefaultParams), opening) :
          opening \in WinScenarios }

\* C12: after Player1 has dropped in columns 0, 1 and 2 of the empty board,
\* with a non-interfering Player2 move between each, get_best_move with any
\* depth >= 1 returns column 3 classified as "win"
C12_ScenarioWin ==
    (/\ last_call.op = "get_best_move"
     /\ last_call.depth >= 1
     /\ state \in WinScenarioStates) =>
        /\ ~last_call.panicked
        /\ last_call.best_move = Some(3)
        /\ ClassifiedAs("win")

\* a call of depth MaxEndDepth on a position of the scenario returned column 3
\* classified as "win"
C12_Witness ==
    /\ last_call.op = "get_best_move"
    /\ last_call.depth = MaxEndDepth
    /\ state \in WinScenarioStates
    /\ state.current_player = Player1
    /\ ~last_call.panicked
    /\ last_call.best_move = Some(3)
    /\ ClassifiedAs("win")

\* the state after the mover has dropped a piece in a legal column
AfterDrop(s, col) ==
    [s EXCEPT !.board = Dropped(s.board, col, s.current_player),
              !.current_player = opponent(s.current_player)]

\* the legal moves after which the opponent has no winning move
BlockingColumns(s) ==
    { col \in LegalColumns(s) :
          WinningColumns(AfterDrop(s, col), opponent(s.current_player)) = {} }

\* C13: if the mover has no immediate win and exactly one legal move blocks
\* the opponent's sole immediate win, get_best_move returns that move
\* classified as "block" (as when Player2 has three pieces stacked in column 0
\* and Player1 is to move)
C13_BlockingMoveTaken ==
    (/\ last_call.op = "get_best_move"
     /\ NoLineYet(state)
     /\ WinningColumns(state, state.current_player) = {}
     /\ Cardinality(WinningColumns(state, opponent(state.current_player))) = 1
     /\ Cardinality(BlockingColumns(state)) = 1) =>
        /\ ~last_call.panicked
        /\ last_call.best_move.some
        /\ last_call.best_move.value \in BlockingColumns(state)
        /\ ClassifiedAs("block")

\* the score of an unpruned, uncached depth-limited minimax over evaluate
RECURSIVE ExhaustiveMinimax(_, _)
ExhaustiveMinimax(s, depth) ==
    IF depth = 0 \/ is_game_over(s) THEN evaluate(s)
    ELSE LET scores == { ExhaustiveMinimax(AfterDrop(s, col), depth - 1) :
                             col \in LegalColumns(s) }
         IN IF s.current_player = Player1
            THEN CHOOSE best \in scores : \A score \in scores : score <= best
            ELSE CHOOSE best \in scores : \A score \in scores : score >= best

\* the last call went through the third loop, the full search
FullSearchReturned ==
    /\ Returned_get_best_move
    /\ last_call.move_evaluations # << >>
    /\ \A i \in 1..Len(last_call.move_evaluations) :
          last_call.move_evaluations[i].move_type = "drop"

\* C14: pruning does not change outcomes: the score the engine's minimax
\* returns for a state and a depth (full window, its cache in use) is the
\* score of the unpruned exhaustive minimax of that depth
C14_PruningKeepsScores ==
    FullSearchReturned =>
        \A i \in 1..Len(last_call.move_evaluations) :
            LET entry == last_call.move_evaluations[i] IN
            entry.score = ExhaustiveMinimax(AfterDrop(state, entry.column),
                                            (last_call.depth - 1) % 256)

\* C15: cache hits do not change the decision: get_best_move on an engine
\* whose table was filled by earlier get_best_move calls selects the column
\* that an engine with an empty table selects for the same state and depth
C15_WarmCacheSameColumn ==
    Returned_get_best_move =>
        last_call.best_move =
            get_best_move(NewAI, state, last_call.depth, FALSE).best_move

\* C16: after a full search the evaluation list is ordered best-first for the
\* mover: non-increasing scores for Player1, non-decreasing for Player2
C16_RankedBestFirst ==
    FullSearchReturned =>
        \A i \in 1..(Len(last_call.move_evaluations) - 1) :
            IF state.current_player = Player1
            THEN last_call.move_evaluations[i].score
                     >= last_call.move_evaluations[i + 1].score
            ELSE last_call.move_evaluations[i].score
                     <= last_call.move_evaluations[i + 1].score

\* a full search for Player2 returned a list in strictly ascending order of
\* score that is not the order of the columns
C16_Witness ==
    /\ FullSearchReturned
    /\ state.current_player = Player2
    /\ Len(last_call.move_evaluations) >= 3
    /\ \A i \in 1..(Len(last_call.move_evaluations) - 1) :
          last_call.move_evaluations[i].score
              <= last_call.move_evaluations[i + 1].score
    /\ \E i \in 1..(Len(last_call.move_evaluations) - 1) :
          /\ last_call.move_evaluations[i].column
                 > last_call.move_evaluations[i + 1].column
          /\ last_call.move_evaluations[i].score
                 < last_call.move_evaluations[i + 1].score

\* the scores of the last call's evaluation list
ListedScores ==
    {last_call.move_evaluations[i].score :
         i \in 1..Len(last_call.move_evaluations)}

\* the best of these for the mover: the maximum for Player1, the minimum for
\* Player2
ExtremalScore ==
    IF state.current_player = Player1
    THEN CHOOSE best \in ListedScores : \A score \in ListedScores : score <= best
    ELSE CHOOSE best \in ListedScores : \A score \in ListedScores : score >= best

\* the columns listed with the extremal score
ExtremalColumns ==
    {last_call.move_evaluations[i].column :
         i \in {j \in 1..Len(last_call.move_evaluations) :
                    last_call.move_evaluations[j].score = ExtremalScore}}

\* C17: after a full search the returned column is the lowest legal column
\* whose score is the extremal one (maximum for Player1, minimum for Player2),
\* and it is the column of the first entry of the returned list
C17_TieBreak ==
    FullSearchReturned =>
        /\ last_call.best_move.some
        /\ last_call.best_move.value \in ExtremalColumns
        /\ \A col \in ExtremalColumns : last_call.best_move.value <= col
        /\ last_call.move_evaluations[1].column = last_call.best_move.value

\* a full search in which several columns tie for the extremal score
C17_Witness ==
    /\ FullSearchReturned
    /\ Cardinality(ExtremalColumns) >= 2
    /\ last_call.best_move.some
    /\ \A col \in ExtremalColumns : last_call.best_move.value <= col
    /\ last_call.move_evaluations[1].column = last_call.best_move.value

\* C18: on a state with no legal move, a full board, get_best_move returns
\* (None, []) and does not fail, whatever the depth and whether or not a
\* player has a line
C18_FullBoardReturnsNone ==
    (last_call.op = "get_best_move" /\ LegalColumns(state) = {}) =>
        /\ ~last_call.panicked
        /\ last_call.best_move = None
        /\ last_call.move_evaluations = << >>

\* the call of depth 0 in a build with overflow checks returned (None, []) on
\* a full board where a player has a line
C18_Witness ==
    /\ last_call.op = "get_best_move"
    /\ last_call.depth = 0
    /\ LegalColumns(state) = {}
    /\ \E player \in Players : HasLine(state.board, player)
    /\ ~last_call.panicked
    /\ last_call.best_move = None
    /\ last_call.move_evaluations = << >>

\* the same on a full board without a line, at the greatest depth tried
C18_DrawnBoard ==
    /\ last_call.op = "get_best_move"
    /\ last_call.depth = MaxDepth
    /\ LegalColumns(state) = {}
    /\ NoLineYet(state)
    /\ last_call.best_move = None

\* the board has a piece with an empty cell somewhere below it
ViolatesGravity(b) ==
    \E col \in 0..(COLS - 1) : \E row \in 0..(ROWS - 2) :
        /\ b[col][row] # Empty
        /\ \E below \in (row + 1)..(ROWS - 1) : b[col][below] = Empty

\* the last call was a get_best_move call that went through the search loop
\* (two or more valid moves, no win or block entry)
SearchLoopReturned ==
    /\ Returned_get_best_move
    /\ Len(get_valid_moves(state)) >= 2
    /\ \A i \in 1..Len(last_call.move_evaluations) :
          last_call.move_evaluations[i].move_type = "drop"

\* C19: on any board, gravity respected or not, make_move(c) returns Ok
\* exactly when c is in get_valid_moves(), and so no drop of the search loop on
\* a column of get_valid_moves fails: the list has an entry for every valid move
C19_DropSucceedsIffValid ==
    /\ (last_call.op = "make_move" /\ "valid_moves" \in DOMAIN last_call) =>
           (last_call.result.ok <=>
                \E i \in 1..Len(last_call.valid_moves) :
                    last_call.valid_moves[i] = last_call.col)
    /\ SearchLoopReturned =>
           /\ Len(last_call.move_evaluations) = Len(get_valid_moves(state))
           /\ \A i \in 1..Len(get_valid_moves(state)) :
                 \E j \in 1..Len(last_call.move_evaluations) :
                     last_call.move_evaluations[j].column = get_valid_moves(state)[i]

\* a drop on a column of get_valid_moves succeeded on a board that violated
\* gravity before it and violates it after it
C19_Witness ==
    /\ last_call.op = "make_move"
    /\ "valid_moves" \in DOMAIN last_call
    /\ last_call.result.ok
    /\ ViolatesGravity(state.board)
    /\ \E col \in 0..(COLS - 1) :
          /\ state.board[col][0] # Empty
          /\ state.board[col][ROWS - 1] = Empty
    /\ moves_made = MaxAIMoves

\* a drop was refused on a column that has empty cells under an occupied top
C19_RefusedOverEmptyCells ==
    /\ last_call.op = "make_move"
    /\ "valid_moves" \in DOMAIN last_call
    /\ last_call.col < COLS
    /\ ~last_call.result.ok
    /\ state.board[last_call.col][ROWS - 1] = Empty

\* the search loop listed every valid move of a board that violates gravity
C19_SearchedAnyBoard ==
    /\ SearchLoopReturned
    /\ ViolatesGravity(state.board)
    /\ last_call.move_evaluations # << >>
    /\ last_call.depth = MaxDepth

\* C20: whatever the interleaving of the steps of two AI instances, an
\* instance that is not in a call has the results, the counters and the table
\* it has when it makes its calls alone
C20_InstancesIsolated ==
    \A inst \in Instances :
        ai[inst].pc = "idle" =>
            /\ ai[inst].result = ai[inst].alone_result
            /\ ai[inst].engine = ai[inst].alone

\* an instance has returned from a searched call, its last, during which the
\* other instance took steps, with the result, counters and table it has alone
C20_Witness ==
    \E inst \in Instances :
        /\ ai[inst].pc = "idle"
        /\ ai[inst].calls = MaxCalls
        /\ ai[inst].overlapped
        /\ ai[inst].result.some
        /\ ai[inst].result.value[2] # << >>
        /\ ai[inst].result = ai[inst].alone_result
        /\ ai[inst].engine = ai[inst].alone
        /\ ai[inst].engine.transposition_table # << >>
        /\ ai[inst].engine.transposition_hits > 0
        /\ \E other \in Instances \ {inst} :
              ai[other].engine.transposition_table # << >>

\* the last call was a get_best_move call of the engine, on a position with
\* some valid move, that returned the kind of result
ReturnedBy(engine, move_type) ==
    /\ last_call.op = "get_best_move"
    /\ "engine" \in DOMAIN last_call
    /\ last_call.engine = engine
    /\ ~last_call.panicked
    /\ last_call.move_evaluations # << >>
    /\ last_call.move_evaluations[1].move_type = move_type

\* C21: a get_best_move call, of AI or of HeuristicAI, leaves the caller's
\* GameState as it was: board, current_player and genetic_params
C21_CallerStateUnchanged ==
    (last_call.op = "get_best_move" /\ "before" \in DOMAIN last_call) =>
        /\ state.board = last_call.before.board
        /\ state.current_player = last_call.before.current_player
        /\ state.genetic_params = last_call.before.genetic_params

\* an AI call that went through its three loops left a state with pieces on
\* the board as it was
C21_Witness ==
    /\ ReturnedBy("AI", "drop")
    /\ last_call.depth = MaxDepth
    /\ Len(last_call.move_evaluations) >= 2
    /\ ~is_empty_board(state)
    /\ state = last_call.before

\* the same for a HeuristicAI call
C21_HeuristicCall ==
    /\ ReturnedBy("HeuristicAI", "drop")
    /\ Len(last_call.move_evaluations) >= 2
    /\ ~is_empty_board(state)
    /\ state = last_call.before

\* and for calls that returned from their scans
C21_ScanCalls ==
    /\ \E engine \in {"AI", "HeuristicAI"} : \E move_type \in {"win", "block"} :
          ReturnedBy(engine, move_type)
    /\ state = last_call.before

\* C22: get_best_move is a function of the board, the player to move, the
\* genetic_params and the depth alone: the column and the scores a call
\* returns are those an AI that has searched nothing returns for the same
\* state and depth, whatever the AI searched before and with whichever
\* genetic_params
C22_PureFunction ==
    Returned_get_best_move =>
        \E fresh \in {get_best_move(NewAI, state, last_call.depth, FALSE)} :
            /\ last_call.best_move = fresh.best_move
            /\ last_call.move_evaluations = fresh.move_evaluations

\* play_game_with_move_count has returned
GameReturned ==
    /\ last_call.op = "play_game_with_move_count"
    /\ last_call.pc = "returned"

\* C23: every game ends: no more than 42 make_move calls succeed from the
\* empty board, after 42 of them is_game_over is true, and the loop of
\* play_game_with_move_count ends after 1 to 42 moves without a failed move
C23_GamesEnd ==
    /\ moves_made <= ROWS * COLS
    /\ moves_made = ROWS * COLS => is_game_over(state)
    /\ GameReturned =>
          /\ last_call.moves >= 1
          /\ last_call.moves <= 42
          /\ ~last_call.failed

\* a make_move call was refused after the 42nd move, on a board without a line
C23_Witness ==
    /\ moves_made = ROWS * COLS
    /\ last_call.op = "make_move"
    /\ last_call.col < COLS
    /\ ~last_call.result.ok
    /\ NoLineYet(state)
    /\ is_game_over(state)

\* play_game_with_move_count returned a game the AI won
C23_LoopWon ==
    /\ GameReturned
    /\ last_call.result = "Win"
    /\ last_call.moves > MaxMoves

\* play_game_with_move_count returned a game the AI lost
C23_LoopLost == GameReturned /\ last_call.result = "Loss"

\* a call of backpropagate is under way, for a node expanded under a root that
\* is not terminal
Backpropagating ==
    /\ last_call.op = "search"
    /\ last_call.pc = "backpropagate"
    /\ ~is_game_over(state)

\* C24: in MCTS::search on a root that is not terminal, backpropagate walks
\* from the expanded node up to the root, updates each node on the way once,
\* and stops: it does not come to a node it has updated already
C24_BackpropagateStops ==
    Backpropagating => \A k \in 1..Len(last_call.updated) :
                           last_call.updated[k] # last_call.current_idx

\* search has returned for a root that is not terminal
C24_SearchReturned ==
    /\ last_call.op = "search"
    /\ last_call.pc = "returned"
    /\ ~is_game_over(state)

\* search does return for a terminal root
C24_TerminalRootReturned ==
    /\ last_call.op = "search"
    /\ last_call.pc = "returned"
    /\ is_game_over(state)

\* the board is the one the drops of test_win_detection leave, whoever began
AfterTestWinDrops ==
    \E first_player \in Players :
        state.board =
            Replay(NewGameState(first_player, DefaultParams), TestWinDrops).board

\* C25: a game made by GameState::new() has Player1 to move, and after the
\* drops 0,1,0,1,0,1,0 get_winner reports Player1
C25_Player1Starts ==
    /\ last_call.op = "new" => state.current_player = Player1
    /\ (AfterTestWinDrops /\ last_call.op = "get_winner")
           => last_call.result = Some(Player1)

\* the drops were made in a game Player2 began, and get_winner reports Player2
C25_Player2Won ==
    /\ AfterTestWinDrops
    /\ last_call.op = "get_winner"
    /\ last_call.result = Some(Player2)

\* the same drops in a game Player1 began: get_winner reports Player1
C25_Player1Won ==
    /\ AfterTestWinDrops
    /\ last_call.op = "get_winner"
    /\ last_call.result = Some(Player1)

children(s) ==
    LET valid_moves == get_valid_moves(s) IN
    {make_move(s, valid_moves[i]).state : i \in 1..Len(valid_moves)}

\* the table of the AI has an entry for the position of at least this depth
DeepEnough(s, depth) ==
    /\ hash(s) \in DOMAIN ai.transposition_table
    /\ ai.transposition_table[hash(s)].depth >= depth

\* the table of the AI has an entry for the position of a smaller depth
TooShallow(s, depth) ==
    /\ hash(s) \in DOMAIN ai.transposition_table
    /\ ai.transposition_table[hash(s)].depth < depth

\* the cached returns of a search of the position to this depth that is not
\* answered from the table itself, for depths 0 and 1 and finished games:
\* none at a leaf, and one for each child that has an entry at depth 1, where
\* the window handed down by get_best_move cuts no child off
cached_returns_below(s, depth) ==
    IF depth = 0 \/ is_game_over(s) THEN 0
    ELSE Cardinality({c \in children(s) :
                         hash(c) \in DOMAIN ai.transposition_table})

\* C27: minimax, as get_best_move calls it on the positions after the current
\* one, returns the score of the table only when the entry of the position
\* has at least the requested depth, and counts one transposition hit then;
\* otherwise it searches, stores the position at the requested depth and
\* counts no hit of its own
C27_DepthGate ==
    \A child \in children(state) : \A depth \in 0..MaxEndDepth :
      \A found \in {minimax(ai, child, depth, -F32_INFINITY, F32_INFINITY)} :
        LET key == hash(child)
        IN IF DeepEnough(child, depth)
           THEN /\ found.score = ai.transposition_table[key].evaluation
                /\ found.ai = [ai EXCEPT !.transposition_hits = @ + 1]
           ELSE /\ found.ai.transposition_table[key].depth = depth
                /\ (depth <= 1 \/ is_game_over(child))
                     => found.ai.transposition_hits
                          = ai.transposition_hits
                              + cached_returns_below(child, depth)

\* the table has an entry for a position after the current one that is too
\* shallow for a request, and the search gives another score than the entry's
C27_Witness ==
    \E child \in children(state) : \E depth \in 1..MaxEndDepth :
        /\ TooShallow(child, depth)
        /\ minimax(ai, child, depth, -F32_INFINITY, F32_INFINITY).score
             # ai.transposition_table[hash(child)].evaluation

\* a request is answered from an entry deeper than the request
C27_DeeperEntryReturned ==
    \E child \in children(state) : \E depth \in 0..MaxEndDepth :
        /\ DeepEnough(child, depth)
        /\ ai.transposition_table[hash(child)].depth > depth

\* a drop of the player into the column of the board of s completes a line
drop_wins(s, player, col) ==
    LET dropped == make_move([s EXCEPT !.current_player = player], col) IN
    /\ dropped.result.ok
    /\ get_winner(dropped.state) = Some(player)

\* the last call returned a move classified "block"
BlockReturned ==
    /\ last_call.op = "get_best_move"
    /\ ~last_call.panicked
    /\ last_call.best_move.some
    /\ last_call.move_evaluations # << >>
    /\ last_call.move_evaluations[1].move_type = "block"

\* C28: a move that get_best_move (of AI or HeuristicAI) returns as "block"
\* eliminates an immediate win of the opponent: the opponent had a winning
\* drop in the position of the call, and no such drop wins after the move
C28_BlockEliminatesWin ==
    BlockReturned =>
        LET before == last_call.before
            opp == opponent(before.current_player)
            after == make_move(before, last_call.best_move.value).state
        IN /\ \E col \in 0..(COLS - 1) : drop_wins(before, opp, col)
           /\ \A col \in 0..(COLS - 1) :
                 drop_wins(before, opp, col) => ~drop_wins(after, opp, col)

\* the engine returned a "block" after which the opponent's winning drop of
\* before still wins
BlockLeavesWin(engine) ==
    /\ BlockReturned
    /\ last_call.engine = engine
    /\ \E col \in 0..(COLS - 1) :
          /\ drop_wins(last_call.before,
                       opponent(last_call.before.current_player), col)
          /\ drop_wins(make_move(last_call.before,
                                 last_call.best_move.value).state,
                       opponent(last_call.before.current_player), col)

C28_AIBlockLeavesWin == BlockLeavesWin("AI")

C28_HeuristicBlockLeavesWin == BlockLeavesWin("HeuristicAI")

\* the pieces of a column, from its entry in a table key
RECURSIVE pieces_in_column_bytes(_)
pieces_in_column_bytes(n) ==
    IF n = 0 THEN 0
    ELSE (IF n % 3 = 0 THEN 0 ELSE 1) + pieces_in_column_bytes(n \div 3)

RECURSIVE pieces_in_key(_, _)
pieces_in_key(key, k) ==
    IF k > COLS THEN 0
    ELSE pieces_in_column_bytes(key[k]) + pieces_in_key(key, k + 1)

\* the plies between the position of the game and the position of the key
plies_below_root(key) ==
    pieces_in_key(key, 1)
        - (pieces_count(state, Player1) + pieces_count(state, Player2))

\* get_best_move was called on the current position by an AI with an empty
\* table and went on to its search loop
SearchedFromEmptyTable ==
    /\ last_call.op = "get_best_move"
    /\ last_call.table_size = 0
    /\ last_call.panicked \/ Len(last_call.move_evaluations) > 1

\* C29: max_depth bounds the work of get_best_move, 0 included: the call
\* computes max_depth - 1 without a failure and without wrap-around, so that
\* every position it evaluates is at most max_depth plies below the root and
\* is searched to a depth of at most max_depth - 1
C29_DepthBoundsWork ==
    SearchedFromEmptyTable =>
        /\ ~last_call.panicked
        /\ \A key \in DOMAIN ai.transposition_table :
              /\ plies_below_root(key) <= last_call.depth
              /\ ai.transposition_table[key].depth <= last_call.depth - 1

\* the depth-0 call of a build with overflow checks: the subtraction panics
C29_DepthZeroPanics ==
    /\ SearchedFromEmptyTable
    /\ last_call.depth = 0
    /\ last_call.panicked

\* the depth-0 call of a build without them: positions two plies and more
\* below the root are evaluated, with depths counted down from 255
C29_DepthZeroWraps ==
    /\ SearchedFromEmptyTable
    /\ last_call.depth = 0
    /\ ~last_call.panicked
    /\ \E key \in DOMAIN ai.transposition_table :
          /\ plies_below_root(key) >= 2
          /\ ai.transposition_table[key].depth = 255 - plies_below_root(key) + 1

\* with max_depth of 1 and more the bound is kept: the call went through its
\* search loop and the property holds of it
C29_PositiveDepthBounded ==
    /\ SearchedFromEmptyTable
    /\ last_call.depth >= 1
    /\ ai.transposition_table # << >>
    /\ \A key \in DOMAIN ai.transposition_table :
          /\ plies_below_root(key) <= last_call.depth
          /\ ai.transposition_table[key].depth
               = last_call.depth - plies_below_root(key)


\* every call with max_depth of 1 and more keeps the bound
C29_PositiveDepthsKeepBound ==
    (SearchedFromEmptyTable /\ last_call.depth >= 1) =>
        /\ ~last_call.panicked
        /\ \A key \in DOMAIN ai.transposition_table :
              /\ plies_below_root(key) <= last_call.depth
              /\ ai.transposition_table[key].depth
                   = last_call.depth - plies_below_root(key)


\* the cell of a table key at a column and row
RECURSIVE pow3(_)
pow3(n) == IF n = 0 THEN 1 ELSE 3 * pow3(n - 1)

key_cell(key, col, row) == (key[col + 1] \div pow3(row)) % 3

\* the key is of a full board without a line of four
DrawnKey(key) ==
    LET s == [board |-> [col \in 0..(COLS - 1) |->
                           [row \in 0..(ROWS - 1) |->
                              CASE key_cell(key, col, row) = 0 -> Empty
                                [] key_cell(key, col, row) = 1 -> "Player1"
                                [] OTHER -> "Player2"]],
              current_player |-> Player1,
              genetic_params |-> DefaultParams]
    IN get_valid_moves(s) = << >> /\ ~has_winner(s)


\* the finished positions a search of s can come to
RECURSIVE finished_below(_)
finished_below(s) ==
    IF has_winner(s) \/ get_valid_moves(s) = << >> THEN {s}
    ELSE UNION {finished_below(c) : c \in children(s)}

\* the drawn positions a search of the current position can come to
DrawnBelow == {s \in finished_below(state) : ~has_winner(s)}

\* C30 as stated: a drawn position met in the recursion with a requested depth
\* above 0 gets no entry in the transposition table
C30_DrawNotCached ==
    \A key \in DOMAIN ai.transposition_table :
        DrawnKey(key) => ai.transposition_table[key].depth = 0

\* C30: a drawn position met in the recursion with a requested depth above 0
\* is a finished game for minimax: unless an entry of at least that depth
\* answers, minimax returns evaluate's 0 and inserts it for the position at
\* the requested depth, and it never counts the position as a node
C30_DrawCached ==
    \A s \in DrawnBelow : \A depth \in 1..MaxEndDepth :
      \A found \in {minimax(ai, s, depth, -F32_INFINITY, F32_INFINITY)} :
        /\ found.score = 0
        /\ found.ai.nodes_evaluated = ai.nodes_evaluated
        /\ hash(s) \in DOMAIN found.ai.transposition_table
        /\ found.ai.transposition_table[hash(s)].evaluation = 0
        /\ ~DeepEnough(s, depth) => found.ai = insert_entry(ai, hash(s), 0, depth)

\* a search has met a drawn position below the position of the call with a
\* requested depth above 0 and has left an entry for it
C30_Witness ==
    /\ last_call.op = "get_best_move"
    /\ ~last_call.panicked
    /\ last_call.depth >= 2
    /\ \E s \in DrawnBelow :
          /\ s # state
          /\ hash(s) \in DOMAIN ai.transposition_table
          /\ ai.transposition_table[hash(s)].depth
               = last_call.depth - plies_below_root(hash(s))
          /\ ai.transposition_table[hash(s)].depth > 0


\* the position of a table key, with the parameters of the game
key_position(key) ==
    [board |-> [col \in 0..(COLS - 1) |->
                  [row \in 0..(ROWS - 1) |->
                     CASE key_cell(key, col, row) = 0 -> Empty
                       [] key_cell(key, col, row) = 1 -> "Player1"
                       [] OTHER -> "Player2"]],
     current_player |-> IF key[COLS + 1] = 0 THEN Player1 ELSE Player2,
     genetic_params |-> state.genetic_params]

\* get_best_move has returned from a call on the current position that began
\* with an empty table
ReturnedFromEmptyTable ==
    /\ last_call.op = "get_best_move"
    /\ last_call.table_size = 0
    /\ ~last_call.panicked

\* the depth a call of get_best_move counts down from: max_depth, or 256 when
\* the depth - 1 of a depth-0 call has wrapped to 255
counted_down_from == IF last_call.depth = 0 THEN 256 ELSE last_call.depth

\* the positions of the table that were searched through their moves
SearchedInside ==
    {key \in DOMAIN ai.transposition_table :
        /\ ai.transposition_table[key].depth > 0
        /\ ~is_game_over(key_position(key))}

\* C31: within one get_best_move call the depth requested for a position is
\* determined by its plies below the root, so a re-visit requests no more
\* than the first visit did: every position is stored with the depth left at
\* its ply, and no position is searched through its moves twice (every
\* re-visit is answered from the table)
C31_RevisitsNoDeeper ==
    ReturnedFromEmptyTable =>
        /\ \A key \in DOMAIN ai.transposition_table :
              ai.transposition_table[key].depth
                 = counted_down_from - plies_below_root(key)
        /\ ai.nodes_evaluated = Cardinality(SearchedInside)

\* a call that began with an empty table came to a position again
C31_Witness ==
    /\ ReturnedFromEmptyTable
    /\ last_call.depth >= 3
    /\ ai.transposition_hits > 0
    /\ ai.nodes_evaluated > 0


\* C32: with exactly one legal move get_best_move returns that column at once:
\* it is the column the win scan, the block scan and the search would come
\* to, nothing is searched and the transposition table stays as it was
C32_SingleMoveShortcut ==
    [][(last_call'.op = "get_best_move" /\ Len(get_valid_moves(state)) = 1)
         => /\ ~last_call'.panicked
            /\ last_call'.best_move = Some(get_valid_moves(state)[1])
            /\ last_call'.move_evaluations = << >>
            /\ ai'.transposition_table = ai.transposition_table
            /\ ai'.nodes_evaluated = 0
            /\ ai'.transposition_hits = 0
            /\ \A overflow_checks \in Builds(last_call'.depth) :
               \A full \in {full_procedure(ai, state, get_valid_moves(state),
                                           last_call'.depth, overflow_checks)} :
                  full.panicked \/ full.best_move = last_call'.best_move]_vars

\* get_best_move was called with a table that has entries on a position with
\* a single legal move, for which a search would have run
C32_Witness ==
    /\ last_call.op = "get_best_move"
    /\ last_call.depth >= 1
    /\ last_call.table_size > 0
    /\ Len(get_valid_moves(state)) = 1
    /\ ~winning_move_from(state, get_valid_moves(state), 1).some
    /\ ~blocking_move_from(state, get_valid_moves(state), 1).some


\* the result of the last call of get_best_move is that of the call by a
\* newly made AI, counters included
SameAsNewAI(call, a) ==
    \E overflow_checks \in Builds(call.depth) :
    \E fresh \in {get_best_move(NewAI, state, call.depth, overflow_checks)} :
        /\ fresh.panicked = call.panicked
        /\ ~fresh.panicked =>
              /\ fresh.best_move = call.best_move
              /\ fresh.move_evaluations = call.move_evaluations
        /\ fresh.ai = a

C34_StoredDepthNeverDecreases ==
    [][last_call'.op = "get_best_move"
         => \A key \in DOMAIN ai.transposition_table :
               /\ key \in DOMAIN ai'.transposition_table
               /\ ai'.transposition_table[key].depth
                     >= ai.transposition_table[key].depth
               /\ ai'.transposition_table[key].depth
                     = ai.transposition_table[key].depth
                    => ai'.transposition_table[key]
                          = ai.transposition_table[key]]_vars

\* a call on a table with entries was answered from it in part: entries
\* deeper than the requests of this call are still there, beside positions
\* stored with the depth this call requested for them
C34_Witness ==
    /\ last_call.op = "get_best_move"
    /\ ~last_call.panicked
    /\ last_call.table_size > 0
    /\ ai.transposition_hits > 0
    /\ \E key \in DOMAIN ai.transposition_table :
          ai.transposition_table[key].depth
             > counted_down_from - plies_below_root(key)
    /\ \E key \in DOMAIN ai.transposition_table :
          /\ ai.transposition_table[key].depth
               = counted_down_from - plies_below_root(key)
          /\ ai.transposition_table[key].depth >= 2


\* the counters an AI has after the call when it had counters of 0 before it
counters_of_call(a, s, call) ==
    LET zeroed == [a EXCEPT !.nodes_evaluated = 0, !.transposition_hits = 0]
        done == get_best_move(zeroed, s, call.depth, call.panicked).ai
    IN <<done.nodes_evaluated, done.transposition_hits>>

\* C35: get_best_move sets nodes_evaluated and transposition_hits to 0 on
\* entry, so that after the call they count the work of that call alone,
\* whatever they were before; the entries of the table stay from call to
\* call, and the size of the table decreases in a clear only
C35_CountersResetTableKept ==
    [][/\ last_call'.op = "get_best_move"
            => /\ <<ai'.nodes_evaluated, ai'.transposition_hits>>
                     = counters_of_call(ai, state, last_call')
               /\ DOMAIN ai.transposition_table
                     \subseteq DOMAIN ai'.transposition_table
       /\ get_transposition_table_size(ai') < get_transposition_table_size(ai)
            => last_call'.op = "clear_transposition_table"]_vars

\* a call by an AI with entries in its table and the counts of an earlier
\* search: it searched nothing itself, was answered from the table and left
\* counters that tell so
C35_Witness ==
    /\ last_call.op = "get_best_move"
    /\ ~last_call.panicked
    /\ last_call.table_size > 0
    /\ last_call.table_size = get_transposition_table_size(ai)
    /\ ai.nodes_evaluated = 0
    /\ ai.transposition_hits > 1
    /\ Len(last_call.move_evaluations) > 1


\* the last call was a get_best_move of the engine, and it returned
ReturnedByEngine(engine) ==
    /\ last_call.op = "get_best_move"
    /\ last_call.engine = engine
    /\ ~last_call.panicked

\* C36: HeuristicAI.get_best_move returns the column that AI.get_best_move
\* returns with depth 1 and an empty table: whichever of the two was called,
\* the other returns the same column for the position of the call
C36_HeuristicIsDepthOne ==
    /\ ReturnedByEngine("HeuristicAI")
          => last_call.best_move
                = get_best_move(NewAI, last_call.before, 1, FALSE).best_move
    /\ (ReturnedByEngine("AI") /\ last_call.depth = 1)
          => last_call.best_move
                = heuristic_get_best_move(NewHeuristicAI,
                                          last_call.before).best_move

\* HeuristicAI scored the moves of a position with Player2 to move and chose
\* one that is not the first valid move
C36_Witness ==
    /\ ReturnedByEngine("HeuristicAI")
    /\ last_call.before.current_player = Player2
    /\ Len(last_call.move_evaluations) > 1
    /\ last_call.best_move # Some(get_valid_moves(last_call.before)[1])


\* C37: whenever HeuristicAI.get_best_move returns a non-empty evaluation
\* list, the first entry of the list is the chosen column, whoever moves
C37_FirstIsChosen ==
    (ReturnedByEngine("HeuristicAI") /\ last_call.move_evaluations # << >>)
       => last_call.move_evaluations[1].column = last_call.best_move.value

\* with Player1 to move the first entry of a non-empty list is the chosen
\* column
C37_FirstIsChosenForPlayer1 ==
    (/\ ReturnedByEngine("HeuristicAI")
     /\ last_call.move_evaluations # << >>
     /\ last_call.before.current_player = Player1)
       => last_call.move_evaluations[1].column = last_call.best_move.value

\* with Player2 to move HeuristicAI scored several moves and the chosen
\* column, the one of the lowest score, is the last entry of the list
C37_Player2ChosenLast ==
    /\ ReturnedByEngine("HeuristicAI")
    /\ last_call.before.current_player = Player2
    /\ Len(last_call.move_evaluations) > 1
    /\ last_call.move_evaluations[1].column # last_call.best_move.value
    /\ last_call.move_evaluations[Len(last_call.move_evaluations)].column
          = last_call.best_move.value


\* the pieces on the board of the state
total_pieces(s) == pieces_count(s, Player1) + pieces_count(s, Player2)

\* the piece counts of the two players differ by at most 1
counts_balanced(s) ==
    /\ pieces_count(s, Player1) - pieces_count(s, Player2) <= 1
    /\ pieces_count(s, Player2) - pieces_count(s, Player1) <= 1

\* C38: in every state reached from the empty board by make_move alone the
\* piece counts of the two players differ by at most 1, the pieces on the
\* board are as many as the successful moves, and the player to move is the
\* first mover iff that number is even
C38_CountsAndParity ==
    /\ [](counts_balanced(state) /\ total_pieces(state) = moves_made)
    /\ \A first_mover \in Players :
          (state.current_player = first_mover /\ total_pieces(state) = 0)
             => [](state.current_player = first_mover
                      <=> total_pieces(state) % 2 = 0)

\* seven successful moves were made from the empty board and one of the
\* columns is full
C38_Witness ==
    /\ last_call.op = "make_move"
    /\ last_call.result.ok
    /\ moves_made = MaxTestMoves
    /\ \E col \in TestColArgs : state.board[col][0] # Empty
    /\ total_pieces(state) = MaxTestMoves


\* the cell with the piece of the other player, an empty cell as it is
exchanged(cell) ==
    IF cell = from_player(Player1) THEN from_player(Player2)
    ELSE IF cell = from_player(Player2) THEN from_player(Player1)
    ELSE cell

\* the state with every piece exchanged for one of the other player and the
\* other player to move
colours_exchanged(s) ==
    [s EXCEPT !.board = [col \in 0..(COLS - 1) |->
                            [row \in 0..(ROWS - 1) |->
                                exchanged(s.board[col][row])]],
              !.current_player = opponent(s.current_player)]

\* the state with every piece exchanged and the same player to move
pieces_exchanged(s) ==
    [colours_exchanged(s) EXCEPT !.current_player = s.current_player]

\* C39: exchanging every Player1 piece with a Player2 piece and flipping
\* current_player negates the value returned by evaluate
C39_EvaluateAntisymmetric ==
    last_call.op = "evaluate"
       => evaluate(colours_exchanged(state)) = -last_call.result

\* evaluate returned a value other than 0 for a position without a winner in
\* which the two players have different numbers of pieces
C39_Witness ==
    /\ last_call.op = "evaluate"
    /\ last_call.result # 0
    /\ ~has_winner(state)
    /\ pieces_count(state, Player1) # pieces_count(state, Player2)

\* without the flip of current_player the value is not negated
C39_FlipNeeded ==
    /\ last_call.op = "evaluate"
    /\ evaluate(pieces_exchanged(state)) # -last_call.result


\* evaluate returned the value of a win
C39_WonWitness ==
    /\ last_call.op = "evaluate"
    /\ has_winner(state)
    /\ evaluate(colours_exchanged(state)) = -last_call.result


\* search has returned for a root with at least one legal move
ReturnedForRootWithMoves ==
    /\ last_call.op = "search"
    /\ last_call.pc = "returned"
    /\ get_valid_moves(state) # << >>

\* the move is a legal move of the root and no legal move has a child with
\* more visits, a move without a child counting as 0 visits
most_visited(mv) ==
    /\ \E i \in 1..Len(get_valid_moves(state)) : get_valid_moves(state)[i] = mv
    /\ \A i \in 1..Len(get_valid_moves(state)) :
          last_call.child_visits[get_valid_moves(state)[i]]
             <= last_call.child_visits[mv]

\* C40: for every root with at least one legal move MCTS::search returns the
\* legal move whose child has the most visits: every simulation is over once
\* its backpropagate has updated the root, so that search comes to its return,
\* and the move returned is a legal move with the highest count
C40_ReturnsMostVisited ==
    /\ (/\ last_call.op = "search"
        /\ last_call.pc = "backpropagate"
        /\ get_valid_moves(state) # << >>)
          => \A k \in 1..Len(last_call.updated) :
                last_call.updated[k] # last_call.root_idx
    /\ ReturnedForRootWithMoves => most_visited(last_call.best_move)

\* search returned for a won root with legal moves: no move has a child, all
\* count as 0 visits, and the last legal move is returned
C40_WonRootReturned ==
    /\ ReturnedForRootWithMoves
    /\ has_winner(state)
    /\ most_visited(last_call.best_move)
    /\ last_call.best_move
          = get_valid_moves(state)[Len(get_valid_moves(state))]

\* backpropagate goes on after it has updated the root, for a root with legal
\* moves and no winner
C40_SimulationGoesOn ==
    /\ last_call.op = "search"
    /\ last_call.pc = "backpropagate"
    /\ get_valid_moves(state) # << >>
    /\ ~has_winner(state)
    /\ \E k \in 1..Len(last_call.updated) :
          last_call.updated[k] = last_call.root_idx

\* search has returned for a root with legal moves and no winner
C40_OpenRootReturned == ReturnedForRootWithMoves /\ ~has_winner(state)
====
